---- MODULE Spec2Model ----
(***************************************************************************)
(* A model of the record store, the identity resolver and the filename /   *)
(* date generator of tcolmanager (TIC-80 collection manager).              *)
(*                                                                         *)
(* Python values are modelled as follows.                                  *)
(*   str            a TLA+ string; the text functions below work on its    *)
(*                  characters (Len, SubSeq, \o).                          *)
(*   dict[str,str]  a function from the column names present to strings.   *)
(*   dict keyed by game id (insertion ordered)                             *)
(*                  a sequence of [key, row] entries, in insertion order.  *)
(*   float          a record [kind, num, scale]: kind "fin" is the decimal *)
(*                  num / 10^scale, kinds "inf", "-inf" and "nan" are the   *)
(*                  IEEE specials; kind "err" is a failed parse.  The      *)
(*                  decimal is exact, where a double rounds: the inputs    *)
(*                  stay within the integers a double represents exactly.  *)
(***************************************************************************)
EXTENDS Integers, Sequences, FiniteSets, TLC

VARIABLES
    csv_file,            \* the file at CSV_DATABASE_PATH: NoFile or [header, rows]
    _global_db,          \* csv_manager._global_db
    _global_csv_path,    \* csv_manager._global_csv_path is set
    _global_fieldnames,  \* csv_manager._global_fieldnames (<<>> models None)
    pc,                  \* position of the running command, or of the caller
    cmd,                 \* the command being run
    load_pos,            \* number of rows of the file the reader has consumed
    listing,             \* upstream entries still to be merged by an update command
    lookup,              \* tic_id_to_db_id / itch_id_to_db_id of the update command
    runs,                \* number of commands started so far
    snapshot,            \* history: the store as returned by the load of this run
    last_saved,          \* history: the store handed to the last save, whether it
                         \* found a file and with which header, and, for a save taken
                         \* write by write, the file it found; NoSave before
    in_row,              \* record handed to the resolver or the generator
    in_opts,             \* naming options handed to the generator
    local_tz,            \* UTC offset of the process' local time zone, in seconds
    out,                 \* input and result of the last call of that function
    prev_call,           \* input and result of the call before it
    disk,                \* the files under ROMS_PATH, OLD_ROMS_PATH and MEDIA_PATH
    dl,                  \* history of the asset commands: what each run selected,
                         \* fetched and moved
    pool                 \* the worker pool of ai_assistant_command: tasks, the
                         \* print lock, the counters of the main thread

vars == <<csv_file, _global_db, _global_csv_path, _global_fieldnames, pc, cmd,
          load_pos, listing, lookup, runs, snapshot, last_saved, in_row, in_opts,
          local_tz, out, prev_call, disk, dl, pool>>

-----------------------------------------------------------------------------
(* Text primitives of the Python runtime, on the characters the inputs use. *)

Char(s, i) == SubSeq(s, i, i)

Whitespace == {" ", "\t"}

Digits == "0123456789"

UpperLetters == "ABCDEFGHIJKLMNOPQRSTUVWXYZ"

LowerLetters == "abcdefghijklmnopqrstuvwxyz"

\* the characters in code point order
CodePoints ==
    "\t !\"#$%&'()*+,-./0123456789:;<=>?@ABCDEFGHIJKLMNOPQRSTUVWXYZ[\\]^_abcdefghijklmnopqrstuvwxyz{|}~"

\* the table that maps the i-th character of from to the i-th element of to
RECURSIVE CharTable(_, _, _)
CharTable(from, to, i) ==
    IF i > Len(from) THEN <<>>
    ELSE (Char(from, i) :> to[i]) @@ CharTable(from, to, i + 1)

DigitValTable == CharTable(Digits, [i \in 1..10 |-> i - 1], 1)

LowerTable == CharTable(UpperLetters, [i \in 1..26 |-> Char(LowerLetters, i)], 1)

UpperTable == CharTable(LowerLetters, [i \in 1..26 |-> Char(UpperLetters, i)], 1)

OrdTable == CharTable(CodePoints, [i \in 1..Len(CodePoints) |-> i], 1)

IsDigit(c) == c \in DOMAIN DigitValTable

DigitVal(c) == DigitValTable[c]

\* str.lower() on one character
LowerChar(c) == IF c \in DOMAIN LowerTable THEN LowerTable[c] ELSE c

\* str.upper() on one character
UpperChar(c) == IF c \in DOMAIN UpperTable THEN UpperTable[c] ELSE c

\* ord(c)
Ord(c) == OrdTable[c]

RECURSIVE Lower(_)
Lower(s) == IF s = "" THEN "" ELSE LowerChar(Char(s, 1)) \o Lower(Tail(s))

RECURSIVE Upper(_)
Upper(s) == IF s = "" THEN "" ELSE UpperChar(Char(s, 1)) \o Upper(Tail(s))

RECURSIVE LStrip(_)
LStrip(s) ==
    IF s # "" /\ Char(s, 1) \in Whitespace THEN LStrip(Tail(s)) ELSE s

RECURSIVE RStrip(_)
RStrip(s) ==
    IF s # "" /\ Char(s, Len(s)) \in Whitespace
    THEN RStrip(SubSeq(s, 1, Len(s) - 1))
    ELSE s

\* str.strip()
Strip(s) == RStrip(LStrip(s))

\* str.endswith(suffix)
EndsWith(s, suffix) ==
    /\ Len(s) >= Len(suffix)
    /\ SubSeq(s, Len(s) - Len(suffix) + 1, Len(s)) = suffix

\* s.replace(old, new)
RECURSIVE Replace(_, _, _)
Replace(s, old, new) ==
    IF Len(s) < Len(old) THEN s
    ELSE IF SubSeq(s, 1, Len(old)) = old
         THEN new \o Replace(SubSeq(s, Len(old) + 1, Len(s)), old, new)
         ELSE Char(s, 1) \o Replace(Tail(s), old, new)

RECURSIVE Pow10(_)
Pow10(n) == IF n = 0 THEN 1 ELSE 10 * Pow10(n - 1)

RECURSIVE NatToStr(_)
NatToStr(n) ==
    IF n < 10 THEN Char(Digits, n + 1)
    ELSE NatToStr(n \div 10) \o Char(Digits, (n % 10) + 1)

\* str(n) for an int
IntToStr(n) == IF n < 0 THEN "-" \o NatToStr(-n) ELSE NatToStr(n)

\* the digits of s read as a natural number (s holds digits only)
RECURSIVE DigitsToNat(_)
DigitsToNat(s) ==
    IF s = "" THEN 0
    ELSE 10 * DigitsToNat(SubSeq(s, 1, Len(s) - 1)) + DigitVal(Char(s, Len(s)))

\* length of the longest prefix of s made of digits
RECURSIVE DigitPrefix(_)
DigitPrefix(s) ==
    IF s # "" /\ IsDigit(Char(s, 1)) THEN 1 + DigitPrefix(Tail(s)) ELSE 0

-----------------------------------------------------------------------------
(* float(s): Python's float constructor on a string.                        *)

FloatErr == [kind |-> "err", num |-> 0, scale |-> 0]

Fin(n, sc) == [kind |-> "fin", num |-> n, scale |-> sc]

Inf == [kind |-> "inf", num |-> 0, scale |-> 0]

NaN == [kind |-> "nan", num |-> 0, scale |-> 0]

\* mant / 10^nf scaled by the exponent: sign esg, value ex
Scaled(mant, nf, esg, ex) ==
    IF esg = "-" THEN Fin(mant, nf + ex)
    ELSE IF ex >= nf THEN Fin(mant * Pow10(ex - nf), 0)
    ELSE Fin(mant, nf - ex)

\* the sign of the exponent part tl ("e", sign, digits)
ExpSign(tl) == IF Len(tl) >= 2 /\ Char(tl, 2) \in {"+", "-"} THEN Char(tl, 2) ELSE ""

\* the exponent part: its digits edg must be non-empty and digits only
ParseExpDigits(mant, nf, esg, edg) ==
    IF edg = "" \/ DigitPrefix(edg) # Len(edg) THEN FloatErr
    ELSE Scaled(mant, nf, esg, DigitsToNat(edg))

\* what follows the mantissa: nothing, or an exponent
ParseExponent(ndigits, mant, nf, tl, esg) ==
    IF ndigits = 0 THEN FloatErr
    ELSE IF tl = "" THEN Fin(mant, nf)
    ELSE IF LowerChar(Char(tl, 1)) # "e" THEN FloatErr
    ELSE ParseExpDigits(mant, nf, esg, SubSeq(tl, 2 + Len(esg), Len(tl)))

\* the mantissa: int_digits, then the first nf characters of frac
ParseMantissa(int_digits, frac, nf, tl) ==
    ParseExponent(Len(int_digits) + nf, DigitsToNat(int_digits \o SubSeq(frac, 1, nf)),
                  nf, tl, ExpSign(tl))

\* the fraction: frac is the text after the point
ParseFraction(int_digits, frac, nf) ==
    ParseMantissa(int_digits, frac, nf, SubSeq(frac, nf + 1, Len(frac)))

\* the text after the integer digits: an optional point and fraction digits
ParsePoint(int_digits, rest) ==
    IF rest # "" /\ Char(rest, 1) = "."
    THEN ParseFraction(int_digits, Tail(rest), DigitPrefix(Tail(rest)))
    ELSE ParseMantissa(int_digits, "", 0, rest)

\* digits [. digits] [e [+-] digits]; ni is the number of leading digits
ParseDecimal(s, ni) == ParsePoint(SubSeq(s, 1, ni), SubSeq(s, ni + 1, Len(s)))

ParseDigits(s) == ParseDecimal(s, DigitPrefix(s))

\* an underscore may group digits: it stands between two digits
UnderscoresOk(s) ==
    \A i \in 1..Len(s) :
        Char(s, i) = "_" =>
            /\ 1 < i /\ i < Len(s)
            /\ IsDigit(Char(s, i - 1)) /\ IsDigit(Char(s, i + 1))

\* the unsigned body of a float literal: a decimal, inf, infinity or nan
ParseSpecial(s, low) ==
    IF low \in {"inf", "infinity"} THEN Inf
    ELSE IF low = "nan" THEN NaN
    ELSE IF ~UnderscoresOk(s) THEN FloatErr
    ELSE ParseDigits(Replace(s, "_", ""))

ParseUnsigned(s) == ParseSpecial(s, Lower(s))

\* the sign applied to the unsigned value u
ApplySign(sign, u) ==
    IF sign # "-" THEN u
    ELSE IF u.kind = "inf" THEN [u EXCEPT !.kind = "-inf"]
    ELSE IF u.kind = "fin" THEN [u EXCEPT !.num = -u.num]
    ELSE u

\* a float literal without surrounding whitespace: an optional sign, then the body
ParseSigned(t, sign) == ApplySign(sign, ParseUnsigned(SubSeq(t, 1 + Len(sign), Len(t))))

SignOf(t) == IF t # "" /\ Char(t, 1) \in {"+", "-"} THEN Char(t, 1) ELSE ""

ParseStripped(t) == ParseSigned(t, SignOf(t))

\* float(s); kind "err" models ValueError
ParseFloat(s) == ParseStripped(Strip(s))

\* bool(x) of a float: only zero is false (nan and the infinities are true)
FloatTruthy(x) == x.kind \in {"inf", "-inf", "nan"} \/ (x.kind = "fin" /\ x.num # 0)

\* x < y on floats; every comparison with nan is false
FloatLess(x, y) ==
    CASE x.kind = "nan" \/ y.kind = "nan" -> FALSE
      [] x.kind = "-inf" -> y.kind # "-inf"
      [] x.kind = "inf" -> FALSE
      [] y.kind = "inf" -> TRUE
      [] y.kind = "-inf" -> FALSE
      [] OTHER -> x.num * Pow10(y.scale) < y.num * Pow10(x.scale)

\* min(x, y) of the builtin: y only when y < x
FloatMin(x, y) == IF FloatLess(y, x) THEN y ELSE x

\* int(x) of a finite float: truncation toward zero
FloatTrunc(x) ==
    IF x.num >= 0 THEN x.num \div Pow10(x.scale)
    ELSE -((-x.num) \div Pow10(x.scale))

\* math.floor(x) of a finite float
FloatFloor(x) == x.num \div Pow10(x.scale)

-----------------------------------------------------------------------------
(* Records (rows) and the insertion-ordered store.                          *)

\* row.get(k, d)
Get(row, k, d) == IF k \in DOMAIN row THEN row[k] ELSE d

\* dict(row, k=v): assignment row[k] = v, adding the column when missing
Put(row, k, v) == [c \in DOMAIN row \cup {k} |-> IF c = k THEN v ELSE row[c]]

\* row.update(other)
Update(row, other) ==
    [c \in DOMAIN row \cup DOMAIN other |-> IF c \in DOMAIN other THEN other[c] ELSE row[c]]

\* the keys of an insertion-ordered dict
Keys(db) == {db[i].key : i \in 1..Len(db)}

\* position of key k in db (k is a key of db)
IndexOf(db, k) == CHOOSE i \in 1..Len(db) : db[i].key = k

\* db[k]
RowOf(db, k) == db[IndexOf(db, k)].row

\* db[k] = row: an existing key keeps its position, a new key is appended
DictSet(db, k, row) ==
    IF k \in Keys(db)
    THEN [db EXCEPT ![IndexOf(db, k)] = [key |-> k, row |-> row]]
    ELSE Append(db, [key |-> k, row |-> row])

-----------------------------------------------------------------------------
(* data_utils                                                               *)

\* normalize_id raises OverflowError (not caught by its except clause) when
\* float() yields an infinity, because int(inf) overflows
normalize_id_raises(id_str) ==
    id_str # "" /\ ParseFloat(Strip(id_str)).kind \in {"inf", "-inf"}

\* normalize_id as a text rewrite: a trailing ".0" is cut from the stripped text
normalize_id_suffix(id_str) ==
    IF EndsWith(Strip(id_str), ".0")
    THEN SubSeq(Strip(id_str), 1, Len(Strip(id_str)) - 2)
    ELSE Strip(id_str)

\* int(float(s)) when float accepts s, else the stripped text s
NormalizeParsed(s, f) == IF f.kind = "fin" THEN IntToStr(FloatTrunc(f)) ELSE s

NormalizeStripped(s) == NormalizeParsed(s, ParseFloat(s))

normalize_id(id_str) == IF id_str = "" THEN id_str ELSE NormalizeStripped(Strip(id_str))

\* get_primary_game_id comparing the source field as it is written
get_primary_game_id_raw(row) ==
    LET source == Get(row, "source_with_bestversion", "")
        tic_id == Get(row, "tic_id", "")
        itch_id == Get(row, "itch_id", "")
        id_val == Get(row, "id", "")
        preferred_id == IF source = "tic80com" \/ source = "" THEN tic_id
                        ELSE IF source = "itch" THEN itch_id
                        ELSE id_val
    IN  IF preferred_id # "" THEN preferred_id
        ELSE IF tic_id # "" THEN tic_id
        ELSE IF itch_id # "" THEN itch_id
        ELSE id_val

\* the id of the source named by source, else the first non-empty of the three
PreferredId(tic_id, itch_id, id_val, preferred_id) ==
    IF preferred_id # "" THEN preferred_id
    ELSE IF tic_id # "" THEN tic_id
    ELSE IF itch_id # "" THEN itch_id
    ELSE id_val

PrimaryIdOf(source, tic_id, itch_id, id_val) ==
    PreferredId(tic_id, itch_id, id_val,
                IF source = "tic80com" \/ source = "" THEN tic_id
                ELSE IF source = "itch" THEN itch_id
                ELSE id_val)

get_primary_game_id(row) ==
    PrimaryIdOf(Lower(Strip(Get(row, "source_with_bestversion", ""))),
                Get(row, "tic_id", ""), Get(row, "itch_id", ""), Get(row, "id", ""))

\* None, and a str, as a function may return either
None == [none |-> TRUE, id |-> ""]

Some(x) == [none |-> FALSE, id |-> x]

\* the other identifier is returned without the test that the two differ
SecondaryOf_same(primary_id, tic_id, itch_id) ==
    IF tic_id # None /\ primary_id = tic_id.id /\ itch_id # None /\ itch_id.id # ""
    THEN itch_id
    ELSE IF itch_id # None /\ primary_id = itch_id.id /\ tic_id # None /\ tic_id.id # ""
    THEN tic_id
    ELSE None

\* the two tests of get_secondary_game_id: tic_id and itch_id are row.get(...),
\* None when the record lacks the column; a str never equals None, None is falsy
SecondaryOf(primary_id, tic_id, itch_id) ==
    IF tic_id # None /\ primary_id = tic_id.id /\ itch_id # None /\ itch_id.id # "" /\ tic_id # itch_id
    THEN itch_id
    ELSE IF itch_id # None /\ primary_id = itch_id.id /\ tic_id # None /\ tic_id.id # "" /\ tic_id # itch_id
    THEN tic_id
    ELSE None

\* row.get(key)
GetOrNone(row, key) == IF key \in DOMAIN row THEN Some(row[key]) ELSE None

get_secondary_game_id(row) ==
    SecondaryOf(get_primary_game_id(row), GetOrNone(row, "tic_id"), GetOrNone(row, "itch_id"))

\* the category of the source rom_source when the record names none
CategoryOfSource(row, rom_source) ==
    IF Get(row, "rom_category", "") # "" THEN row["rom_category"]
    ELSE IF rom_source = "itch" THEN "Itch"
    ELSE IF rom_source = "tic80com" THEN Get(row, "tic_category", "Games")
    ELSE "Unclassified"

\* x or "tic80com"
OrTic80com(x) == IF x # "" THEN x ELSE "tic80com"

get_rom_category(row) ==
    CategoryOfSource(row, OrTic80com(Get(row, "source_with_bestversion", "tic80com")))

-----------------------------------------------------------------------------
(* datetime.datetime.fromtimestamp(ts).strftime('%Y-%m-%d')                 *)

SecondsPerDay == 24 * 60 * 60

\* zero-padded decimal of n on w digits
RECURSIVE Pad(_, _)
Pad(n, w) == IF w = 0 THEN "" ELSE Pad(n \div 10, w - 1) \o Char(Digits, (n % 10) + 1)

\* the proleptic Gregorian date of a day, from its 400-year era, the year of
\* the era, the day of the year counted from March 1 and the month index mp
Civil(era, yoe, doy, mp) ==
    [year  |-> yoe + era * 400 + (IF mp < 10 THEN 0 ELSE 1),
     month |-> IF mp < 10 THEN mp + 3 ELSE mp - 9,
     day   |-> doy - (153 * mp + 2) \div 5 + 1]

CivilFromDoy(era, yoe, doy) == Civil(era, yoe, doy, (5 * doy + 2) \div 153)

CivilFromYoe(era, doe, yoe) ==
    CivilFromDoy(era, yoe, doe - (365 * yoe + yoe \div 4 - yoe \div 100))

CivilFromDoe(era, doe) ==
    CivilFromYoe(era, doe,
                 (doe - doe \div 1460 + doe \div 36524 - doe \div 146096) \div 365)

\* the date of the day number z (days since 1970-01-01)
CivilFromDays(z) == CivilFromDoe((z + 719468) \div 146097, (z + 719468) % 146097)

\* the day number of the instant ts in the zone at tz seconds east of UTC
LocalDayIn(ts, tz) == (FloatFloor(ts) + tz) \div SecondsPerDay

\* the local day number of the instant ts
LocalDay(ts) == LocalDayIn(ts, local_tz)

\* strftime('%Y-%m-%d')
FormatDate(c) == Pad(c.year, 4) \o "-" \o Pad(c.month, 2) \o "-" \o Pad(c.day, 2)

\* fromtimestamp raises OverflowError for an infinity, ValueError for nan and
\* for an instant outside the years 1..9999
fromtimestamp_raises(ts) ==
    \/ ts.kind # "fin"
    \/ CivilFromDays(LocalDay(ts)).year \notin 1..9999

\* the local date of the instant ts, rendered by strftime('%Y-%m-%d')
fromtimestamp_date(ts) == FormatDate(CivilFromDays(LocalDay(ts)))

-----------------------------------------------------------------------------
(* filename_utils                                                           *)

FORBIDDEN_CHARS == {"<", ">", ":", "\"", "/", "\\", "|", "?", "*"}

\* the first alphabetic character of s upper-cased
RECURSIVE CapitalizeFirstAlpha(_)
CapitalizeFirstAlpha(s) ==
    IF s = "" THEN ""
    ELSE IF UpperChar(Char(s, 1)) # LowerChar(Char(s, 1))
         THEN UpperChar(Char(s, 1)) \o Tail(s)
         ELSE Char(s, 1) \o CapitalizeFirstAlpha(Tail(s))

\* "".join(c for c in name if c not in FORBIDDEN_CHARS)
RECURSIVE RemoveForbidden(_)
RemoveForbidden(name) ==
    IF name = "" THEN ""
    ELSE IF Char(name, 1) \in FORBIDDEN_CHARS THEN RemoveForbidden(Tail(name))
    ELSE Char(name, 1) \o RemoveForbidden(Tail(name))

\* ' '.join(s.split()) of a string without leading whitespace
RECURSIVE JoinSplit(_)
JoinSplit(s) ==
    IF s = "" THEN ""
    ELSE IF Char(s, 1) \in Whitespace
         THEN (IF LStrip(s) = "" THEN "" ELSE " " \o JoinSplit(LStrip(s)))
         ELSE Char(s, 1) \o JoinSplit(Tail(s))

\* the forbidden characters are removed and the whitespace is left as it is
create_safe_filename_nocollapse(name) == RemoveForbidden(name)

create_safe_filename(name) == JoinSplit(LStrip(RemoveForbidden(name)))

sanitize_game_title_name(name) ==
    LET n1 == IF EndsWith(Lower(name), ".tic") THEN SubSeq(name, 1, Len(name) - 4) ELSE name
        n2 == Replace(n1, "_", " ")
        n3 == Replace(Replace(Replace(Replace(n2, "&amp;", "&"), "&#34;", "'"),
                              "&#39;", "'"), "\"", "'")
    IN  CapitalizeFirstAlpha(JoinSplit(LStrip(n3)))

\* float(s) under "if s: try ... except (ValueError, TypeError): pass":
\* an empty or missing field, or one that does not parse, leaves None
TryFloat(row, field) ==
    IF Get(row, field, "") = "" THEN FloatErr ELSE ParseFloat(row[field])

\* row.get("tic_upd_date") or row.get("tic_pub_date", "")
TicDate(row) ==
    IF Get(row, "tic_upd_date", "") # "" THEN row["tic_upd_date"]
    ELSE Get(row, "tic_pub_date", "")

\* the timestamp picked among the itch fields (selected_ts), kind "err" for None
SelectTs(row, lastmod_ts, upd_ts) ==
    IF FloatTruthy(upd_ts) /\ FloatTruthy(lastmod_ts) THEN FloatMin(upd_ts, lastmod_ts)
    ELSE IF FloatTruthy(upd_ts) THEN upd_ts
    ELSE IF FloatTruthy(lastmod_ts) THEN lastmod_ts
    ELSE TryFloat(row, "itch_pub_timestamp")

SelectedItchTs(row) ==
    SelectTs(row, TryFloat(row, "itch_lastmodified_timestamp"),
             TryFloat(row, "itch_upd_timestamp"))

\* the outcome of the date selection: the date, or raised when it ends with
\* an exception
DateIs(date) == [raised |-> FALSE, date |-> date]

DateRaised == [raised |-> TRUE, date |-> ""]

\* datetime.fromtimestamp(ts).strftime('%Y-%m-%d'), with no handler around it
DateFromTs(ts) == IF fromtimestamp_raises(ts) THEN DateRaised ELSE DateIs(fromtimestamp_date(ts))

\* third rule: the selected itch timestamp when it is truthy, else the tic dates
ItchRule(row, selected_ts) ==
    IF FloatTruthy(selected_ts) THEN DateFromTs(selected_ts) ELSE DateIs(TicDate(row))

\* the third rule is entered when update_date is still empty
AfterTicRule(row, update_date) ==
    IF update_date # "" THEN DateIs(update_date) ELSE ItchRule(row, SelectedItchTs(row))

\* second rule: the tic dates when the source field is, or defaults to, tic80com
TicRule(row) ==
    AfterTicRule(row, IF Get(row, "source_with_bestversion", "tic80com") = "tic80com"
                      THEN TicDate(row) ELSE "")

\* first rule: the overwrite timestamp when it is truthy
OverwriteRule(row, upd_ts) == IF FloatTruthy(upd_ts) THEN DateFromTs(upd_ts) ELSE TicRule(row)

\* update_date as computed by generate_filename_and_gamename
update_date(row) == OverwriteRule(row, TryFloat(row, "overwrite_upd_timestamp"))

\* the category suffix of the pre-filename
category_suffix(game_category, filename_category_parenthesis, rom_folder_organization) ==
    IF rom_folder_organization = "single" /\ filename_category_parenthesis
            /\ game_category # "Games"
    THEN LET suffix_name ==
                 IF game_category = "Tools" THEN "Tool"
                 ELSE IF game_category # "Demoscene" /\ EndsWith(game_category, "s")
                      THEN SubSeq(game_category, 1, Len(game_category) - 1)
                      ELSE game_category
         IN  " (" \o suffix_name \o ")"
    ELSE ""

ApplyCase(s, filename_case) ==
    IF filename_case = "uppercase" THEN Upper(s)
    ELSE IF filename_case = "lowercase" THEN Lower(s)
    ELSE s

\* row.get("name_original_reference") or row.get("itch_titlename", "")
OrigName(row) ==
    IF Get(row, "name_original_reference", "") # "" THEN row["name_original_reference"]
    ELSE Get(row, "itch_titlename", "")

\* the overwrite name when it is wanted and not empty, else the original one
ChosenName(use_custom, overwrite_name, orig_name) ==
    IF use_custom /\ overwrite_name # "" THEN overwrite_name ELSE orig_name

\* the FileInfo returned, or raised = TRUE when the call ends with an exception
FileInfo(game_id, pre_filename, gamename, base_safe, upd) ==
    IF upd.raised
    THEN [raised |-> TRUE, pre_filename |-> "", gamename |-> "",
          rom_filename |-> "", image_filename |-> "", update_date |-> ""]
    ELSE [raised |-> FALSE,
          pre_filename |-> pre_filename,
          gamename |-> gamename,
          rom_filename |-> pre_filename \o " - " \o game_id \o " (" \o upd.date \o ").tic",
          image_filename |-> base_safe \o " - " \o game_id \o ".png",
          update_date |-> upd.date]

\* the image is named after the category-suffixed name
NamedFiles_suffixed_image(row, base_filename_name, game_name, suffix, filename_case) ==
    FileInfo(get_primary_game_id(row),
             create_safe_filename(ApplyCase(base_filename_name \o suffix, filename_case)),
             create_safe_filename(game_name),
             create_safe_filename(ApplyCase(base_filename_name \o suffix, filename_case)),
             update_date(row))

\* the names of the files once base name, game name and suffix are chosen
NamedFiles(row, base_filename_name, game_name, suffix, filename_case) ==
    FileInfo(get_primary_game_id(row),
             create_safe_filename(ApplyCase(base_filename_name \o suffix, filename_case)),
             create_safe_filename(game_name),
             create_safe_filename(ApplyCase(base_filename_name, filename_case)),
             update_date(row))

ChooseNames(row, use_custom_filenames, use_custom_gamenames, suffix, filename_case, orig_name, overwrite_name) ==
    NamedFiles(row, ChosenName(use_custom_filenames, overwrite_name, orig_name),
               ChosenName(use_custom_gamenames, overwrite_name, orig_name),
               suffix, filename_case)

generate_filename_and_gamename(row, use_custom_filenames, use_custom_gamenames, filename_category_parenthesis, filename_case, rom_folder_organization) ==
    ChooseNames(row, use_custom_filenames, use_custom_gamenames,
                category_suffix(get_rom_category(row), filename_category_parenthesis,
                                rom_folder_organization),
                filename_case, OrigName(row), Strip(Get(row, "name_overwrite", "")))

-----------------------------------------------------------------------------
(* Ordering of str values (code point order) and the builtin sorted().       *)

\* a < b on str
RECURSIVE StrLess(_, _)
StrLess(a, b) ==
    IF b = "" THEN FALSE
    ELSE IF a = "" THEN TRUE
    ELSE IF Char(a, 1) = Char(b, 1) THEN StrLess(Tail(a), Tail(b))
    ELSE Ord(Char(a, 1)) < Ord(Char(b, 1))

\* s.rjust(w, "0")
RECURSIVE RJustZero(_, _)
RJustZero(s, w) == IF Len(s) >= w THEN s ELSE RJustZero("0" \o s, w)

\* sorted(list(S)) for a set of str: each element is placed after the elements
\* that are less than it
SortedSet(S) ==
    LET ranked == {<<x, Cardinality({y \in S : StrLess(y, x)})>> : x \in S}
    IN  [i \in 1..Cardinality(S) |-> (CHOOSE p \in ranked : p[2] = i - 1)[1]]

\* the elements of a sequence
Range(q) == {q[i] : i \in 1..Len(q)}

-----------------------------------------------------------------------------
(* config                                                                   *)

DEFAULT_FIELDNAMES == <<
    "name_original_reference", "itch_titlename", "name_overwrite", "sortname",
    "lang", "region", "id", "tic_id",
    "itch_id", "source_with_bestversion", "notes", "sscrp_id", "sscrp_id2",
    "sscrp_note1", "sscrp_note2", "NOT_GAME",
    "include_in_collection", "include_in_curated_collection", "distribution_license",
    "rom_category", "tic_category",
    "overwrite_author", "tic_author_name", "tic_uploader_name", "itch_author_name",
    "itch_author_slug", "itch_author_id", "tic_uploader_id",
    "tic_pub_date", "tic_upd_date", "itch_pub_date",
    "itch_upd_date", "itch_lastmodified_date",
    "overwrite_pub_timestamp", "overwrite_upd_timestamp",
    "tic_pub_timestamp", "tic_upd_timestamp", "itch_pub_timestamp",
    "itch_upd_timestamp", "itch_lastmodified_timestamp",
    "download_url", "itch_page",
    "overwrite_genre", "sccrp_genre", "itch_genre", "num_players",
    "esde_controller", "match_type",
    "tic_md5", "file_md5", "file_sha1", "file_CRC", "ipfs_cid",
    "overwrite_description", "sscrp_description", "tic_description",
    "tic_description_extra", "itch_description", "itch_description_extra",
    "match_type" >>

-----------------------------------------------------------------------------
(* csv_manager: the file, load_csv_database and save_csv_database           *)

NoFile == [header |-> <<>>, rows |-> <<>>, exists |-> FALSE]

CsvFile(header, rows) == [header |-> header, rows |-> rows, exists |-> TRUE]

\* the last position of x in the sequence q
LastIndexOf(q, x) ==
    CHOOSE i \in DOMAIN q : q[i] = x /\ \A j \in DOMAIN q : q[j] = x => j <= i

\* csv.DictReader: the dict of one line of the file, dict(zip(fieldnames, cells));
\* a column name that occurs twice keeps the cell of its last occurrence
ReadRow(fieldnames, cells) ==
    [c \in Range(fieldnames) |-> cells[LastIndexOf(fieldnames, c)]]

\* csv.DictWriter: the cells of one record under the header, "" for a column
\* the record lacks
WriteRow(fieldnames, row) == [j \in 1..Len(fieldnames) |-> Get(row, fieldnames[j], "")]

\* the three identifier columns after normalize_id (load_csv_database, loop body)
NormalizeRow(row) ==
    [row EXCEPT !["id"] = normalize_id(row["id"]),
                !["itch_id"] = normalize_id(row["itch_id"]),
                !["tic_id"] = normalize_id(row["tic_id"])]

\* the loop body of load_csv_database raises: a missing identifier column
\* (KeyError) or an identifier that overflows in normalize_id
LoadRowRaises(row) ==
    \/ ~({"id", "itch_id", "tic_id"} \subseteq DOMAIN row)
    \/ \E c \in {"id", "itch_id", "tic_id"} : normalize_id_raises(row[c])

\* the row is stored under its primary id without the test "if game_id"
StoreUnder_unchecked(db, game_id, row) == DictSet(db, game_id, row)

\* the first row of an id is kept
StoreUnder_first(db, game_id, row) ==
    IF game_id # "" /\ game_id \notin Keys(db) THEN DictSet(db, game_id, row) ELSE db

\* "if game_id: db[game_id] = row"
StoreUnder(db, game_id, row) == IF game_id # "" THEN DictSet(db, game_id, row) ELSE db

\* the normalized row is stored under its primary id
LoadNormalized(db, row) == StoreUnder(db, get_primary_game_id(row), row)

\* the loop body of load_csv_database applied to one row read from the file
load_row(db, row) == LoadNormalized(db, NormalizeRow(row))

\* the name a record is sorted by: the first non-empty of the name columns
SortName(r) ==
    IF Get(r, "sortname", "") # "" THEN r["sortname"]
    ELSE IF Get(r, "name_overwrite", "") # "" THEN r["name_overwrite"]
    ELSE IF Get(r, "name_original_reference", "") # "" THEN r["name_original_reference"]
    ELSE Get(r, "itch_titlename", "")

\* the key function handed to sorted() by save_csv_database
SortKey(entry) ==
    Strip(Lower(SortName(entry.row))) \o " " \o RJustZero(Strip(Get(entry.row, "id", "")), 10)

\* insert x into the sorted sequence q after every element whose key is not
\* greater (sorted() is stable)
RECURSIVE InsertSorted(_, _)
InsertSorted(q, x) ==
    IF q = <<>> THEN <<x>>
    ELSE IF StrLess(SortKey(x), SortKey(Head(q))) THEN <<x>> \o q
    ELSE <<Head(q)>> \o InsertSorted(Tail(q), x)

\* sorted(database.values(), key=...)
RECURSIVE Sorted(_)
Sorted(q) ==
    IF q = <<>> THEN <<>>
    ELSE InsertSorted(Sorted(SubSeq(q, 1, Len(q) - 1)), q[Len(q)])

\* the columns of order[lo..hi] that are present, each at its first occurrence
\* in order (a column once appended is discarded from the set of present ones)
RECURSIVE TakePresentIn(_, _, _, _)
TakePresentIn(order, present, lo, hi) ==
    IF lo > hi THEN <<>>
    ELSE IF lo = hi
         THEN (IF order[lo] \in present /\ \A j \in 1..(lo - 1) : order[j] # order[lo]
               THEN <<order[lo]>> ELSE <<>>)
         ELSE LET mid == (lo + hi) \div 2
              IN  TakePresentIn(order, present, lo, mid)
                      \o TakePresentIn(order, present, mid + 1, hi)

TakePresent(order, present) == TakePresentIn(order, present, 1, Len(order))

\* the new columns are put before the remembered ones
WithNewFields_first(kept, all_present) == SortedSet(all_present \ Range(kept)) \o kept

\* the columns of order that are present, then the other present columns sorted
WithNewFields(kept, all_present) == kept \o SortedSet(all_present \ Range(kept))

OrderedFields(order, all_present) ==
    WithNewFields(TakePresent(order, all_present), all_present)

\* final_fieldnames of save_csv_database
final_fieldnames(database, fieldnames) ==
    OrderedFields(IF fieldnames # <<>> THEN fieldnames ELSE DEFAULT_FIELDNAMES,
                  UNION {DOMAIN database[i].row : i \in 1..Len(database)})

\* the file with the header and one line per record, in the order sorted_rows
WriteFile(header, sorted_rows) ==
    CsvFile(header, [i \in 1..Len(sorted_rows) |-> WriteRow(header, sorted_rows[i].row)])

\* the file written by save_csv_database(filepath, database)
save_csv_database(database, fieldnames) ==
    WriteFile(final_fieldnames(database, fieldnames), Sorted(database))

-----------------------------------------------------------------------------
(* Bounds and inputs of the store specification.                            *)

MaxRows == 2       \* rows of the file the first command finds

MaxListing == 1    \* entries an upstream listing returns in one run

MaxRuns == 2       \* commands run one after the other

\* the header of the files the first command may find
StoreHeader ==
    <<"name_original_reference", "id", "tic_id", "itch_id",
      "source_with_bestversion", "tic_md5", "itch_upd_timestamp",
      "overwrite_upd_timestamp">>

\* the lines such a file may hold, cells in the order of StoreHeader
FileRows ==
    { <<"Alpha", "5", "5.0", "", "", "h1", "", "">>,
      <<"Alpha two", "", " 5 ", "", " TIC80COM ", "h1", "", "inf">>,
      <<"Beta", "12345", "", "12345.0", "itch", "", "100", "">>,
      <<"Gamma", " ", "", "", "", "", "", "">>,
      <<"Delta", "v1.0.0", "", "", "custom", "", "", "">>,
      <<"Epsilon", "12345", "", "", "", "", "", "">> }

RECURSIVE SeqsUpTo(_, _)
SeqsUpTo(S, n) ==
    IF n = 0 THEN {<<>>}
    ELSE LET shorter == SeqsUpTo(S, n - 1)
         IN  shorter \cup {Append(q, x) : q \in shorter, x \in S}

InitialFiles == {NoFile} \cup {CsvFile(StoreHeader, rows) : rows \in SeqsUpTo(FileRows, MaxRows)}

\* entries of the tic80.com listing, as api_response_to_list returns them,
\* with the category under which the entry was listed
TicEntries ==
    { [id |-> "5", tic_md5 |-> "h2", name |-> "alpha_one.tic", filename |-> "alpha.tic",
       category |-> "Games"],
      [id |-> "12345", tic_md5 |-> "h3", name |-> "zeta", filename |-> "zeta.tic",
       category |-> "Tools"] }

\* one row yielded by scrape_itch_games
ItchGame(itch_id, title, upd) ==
    [itch_id |-> itch_id, itch_titlename |-> title, itch_page |-> "", itch_author_name |-> "",
     itch_author_slug |-> "", itch_author_id |-> "", itch_description |-> "",
     itch_genre |-> "", itch_pub_date |-> "", itch_upd_date |-> "",
     itch_pub_timestamp |-> "", itch_upd_timestamp |-> upd]

ItchEntries ==
    { ItchGame("12345", "Beta", "200"), ItchGame("12345", "Beta", ""),
      ItchGame("20000", "Eta", "50") }

Commands == {"update_tic", "update_itch"}

Listings(c) ==
    IF c = "update_tic" THEN SeqsUpTo(TicEntries, MaxListing)
    ELSE SeqsUpTo(ItchEntries, MaxListing)

NoSave == [saved |-> FALSE, db |-> <<>>, loaded |-> FALSE, saving |-> FALSE, found |-> FALSE, header |-> <<>>, before |-> NoFile]

NoCall == [called |-> FALSE]

DefaultOpts ==
    [use_custom_filenames |-> TRUE, use_custom_gamenames |-> TRUE,
     filename_category_parenthesis |-> TRUE, filename_case |-> "unchanged",
     rom_folder_organization |-> "single"]

\* the variables of the function calls, unused by the store specification
HarnessIdle ==
    /\ in_row = <<>>
    /\ in_opts = DefaultOpts
    /\ local_tz = 0
    /\ out = NoCall
    /\ prev_call = NoCall

\* the variables of the store, unused by the resolver and generator specifications
StoreIdle ==
    /\ csv_file = NoFile
    /\ _global_db = <<>>
    /\ _global_csv_path = FALSE
    /\ _global_fieldnames = <<>>
    /\ cmd = ""
    /\ load_pos = 0
    /\ listing = <<>>
    /\ lookup = <<>>
    /\ runs = 0
    /\ snapshot = <<>>
    /\ last_saved = NoSave

storeVars == <<csv_file, _global_db, _global_csv_path, _global_fieldnames, cmd,
               load_pos, listing, lookup, runs, snapshot, last_saved>>

harnessVars == <<in_row, in_opts, local_tz, out, prev_call>>

assetVars == <<disk, dl, pool>>

\* no asset command and no worker pool has run
NoHandled == [key |-> "", before |-> <<>>, files |-> {}, answer |-> <<>>, status |-> ""]

NoAssets ==
    [run |-> 0, criteria |-> "", selected |-> <<>>, handled |-> {}, fetched |-> {},
     failed |-> {}, obtained |-> {}, again |-> {}, moves |-> 0, last |-> NoHandled,
     repeated |-> FALSE]

NoPool == [started |-> FALSE]

AssetIdle ==
    /\ disk = {}
    /\ dl = NoAssets
    /\ pool = NoPool

-----------------------------------------------------------------------------
(* The store specification: commands run one after the other, each in a     *)
(* process of its own, against the file left by the one before.             *)

StoreInit ==
    /\ csv_file \in InitialFiles
    /\ _global_db = <<>>
    /\ _global_csv_path = FALSE
    /\ _global_fieldnames = <<>>
    /\ pc = "idle"
    /\ cmd = ""
    /\ load_pos = 0
    /\ listing = <<>>
    /\ lookup = <<>>
    /\ runs = 0
    /\ snapshot = <<>>
    /\ last_saved = NoSave
    /\ HarnessIdle
    /\ AssetIdle

\* a new process starts a command: the module globals have their initial
\* values, and the upstream site will answer with some listing
StartCommand ==
    /\ pc \in {"idle", "raised"}
    /\ runs < MaxRuns
    /\ \E c \in Commands :
          /\ cmd' = c
          /\ listing' \in Listings(c)
    /\ runs' = runs + 1
    /\ _global_db' = <<>>
    /\ _global_csv_path' = FALSE
    /\ _global_fieldnames' = <<>>
    /\ load_pos' = 0
    /\ lookup' = <<>>
    /\ snapshot' = <<>>
    /\ pc' = "start"
    /\ UNCHANGED <<csv_file, last_saved>>
    /\ UNCHANGED <<harnessVars, assetVars>>

\* load_csv_database up to the first row: the globals are reset, a missing
\* file returns the empty store, otherwise the header is remembered
LoadBegin ==
    /\ pc = "start"
    /\ _global_csv_path' = TRUE
    /\ _global_db' = <<>>
    /\ load_pos' = 0
    /\ IF ~csv_file.exists
       THEN /\ _global_fieldnames' = <<>>
            /\ snapshot' = <<>>
            /\ pc' = "loaded"
       ELSE /\ _global_fieldnames' = csv_file.header
            /\ snapshot' = snapshot
            /\ pc' = "loading"
    /\ UNCHANGED <<csv_file, cmd, listing, lookup, runs, last_saved>>
    /\ UNCHANGED <<harnessVars, assetVars>>

\* one iteration of the loop of load_csv_database
LoadRow ==
    /\ pc = "loading"
    /\ load_pos < Len(csv_file.rows)
    /\ LET row == ReadRow(csv_file.header, csv_file.rows[load_pos + 1])
       IN  IF LoadRowRaises(row)
           THEN /\ pc' = "raised"
                /\ UNCHANGED <<_global_db, load_pos>>
           ELSE /\ _global_db' = load_row(_global_db, row)
                /\ load_pos' = load_pos + 1
                /\ pc' = pc
    /\ UNCHANGED <<csv_file, _global_csv_path, _global_fieldnames, cmd, listing,
                   lookup, runs, snapshot, last_saved>>
    /\ UNCHANGED <<harnessVars, assetVars>>

\* load_csv_database returns _global_db
LoadEnd ==
    /\ pc = "loading"
    /\ load_pos = Len(csv_file.rows)
    /\ snapshot' = _global_db
    /\ pc' = "loaded"
    /\ UNCHANGED <<csv_file, _global_db, _global_csv_path, _global_fieldnames, cmd,
                   load_pos, listing, lookup, runs, last_saved>>
    /\ UNCHANGED <<harnessVars, assetVars>>

\* {row.get(field): id for id, row in db.items() if row.get(field)}: for each
\* identifier the key of the last record that carries it
IdToDbId(db, field) ==
    LET ids == {Get(db[i].row, field, "") : i \in 1..Len(db)} \ {""}
    IN  [x \in ids |->
            db[CHOOSE i \in 1..Len(db) :
                  /\ Get(db[i].row, field, "") = x
                  /\ \A j \in (i + 1)..Len(db) : Get(db[j].row, field, "") # x].key]

\* the lookup map built by the update command right after the load
BuildLookup ==
    /\ pc = "loaded"
    /\ cmd \in Commands
    /\ lookup' = IdToDbId(_global_db, IF cmd = "update_tic" THEN "tic_id" ELSE "itch_id")
    /\ pc' = "merge"
    /\ UNCHANGED <<csv_file, _global_db, _global_csv_path, _global_fieldnames, cmd,
                   load_pos, listing, runs, snapshot, last_saved>>
    /\ UNCHANGED <<harnessVars, assetVars>>

-----------------------------------------------------------------------------
(* commands/update_tic80_csv and commands/update_itch_csv                   *)

\* the record created for a tic80.com entry that the lookup does not know
NewTicRow(api_game) ==
    [f \in Range(DEFAULT_FIELDNAMES) \cup {"id", "tic_id"} |->
        CASE f = "name_original_reference" -> sanitize_game_title_name(api_game.name)
          [] f = "id" -> api_game.id
          [] f = "tic_id" -> api_game.id
          [] f = "tic_category" -> api_game.category
          [] f = "tic_md5" -> api_game.tic_md5
          [] f = "download_url" ->
                "https://tic80.com/cart/" \o api_game.tic_md5 \o "/" \o api_game.filename
          [] OTHER -> ""]

\* the existing record is left alone: its source is neither empty nor tic80com
TicSkips(row) ==
    LET source_version == Lower(Strip(Get(row, "source_with_bestversion", "")))
    IN  source_version # "" /\ source_version # "tic80com"

\* name, URL and category are always refreshed from the listing
TicRefreshed(row, api_game) ==
    Put(Put(Put(row, "name_original_reference", sanitize_game_title_name(api_game.name)),
            "download_url",
            "https://tic80.com/cart/" \o api_game.tic_md5 \o "/" \o api_game.filename),
        "tic_category", api_game.category)

\* row.get("tic_md5") != api_md5
TicMd5Differs(row, api_game) ==
    "tic_md5" \notin DOMAIN row \/ row["tic_md5"] # api_game.tic_md5

\* the fields reset when the upstream hash changed
TicInvalidated(row, api_game) ==
    Put(Put(Put(Put(Put(Put(row, "tic_md5", api_game.tic_md5), "file_md5", ""),
                    "file_sha1", ""), "file_CRC", ""), "tic_upd_timestamp", ""),
        "tic_upd_date", "")

\* lookup[k] = v
LookupSet(map, k, v) == [x \in DOMAIN map \cup {k} |-> IF x = k THEN v ELSE map[x]]

\* the hash changed: generate_filename_and_gamename is called for the name it
\* prints, and when it returns the download fields are reset
TicHashChanged(api_game, db_id, fresh, filename_info) ==
    IF filename_info.raised
    THEN /\ _global_db' = DictSet(_global_db, db_id, fresh)
         /\ pc' = "raised"
    ELSE /\ _global_db' = DictSet(_global_db, db_id, TicInvalidated(fresh, api_game))
         /\ pc' = pc

\* an existing record that is not skipped: fresh is the record once refreshed
TicUpdate(api_game, db_id, fresh) ==
    IF ~TicMd5Differs(fresh, api_game)
    THEN /\ _global_db' = DictSet(_global_db, db_id, fresh)
         /\ pc' = pc
    ELSE TicHashChanged(api_game, db_id, fresh,
             generate_filename_and_gamename(fresh,
                 in_opts.use_custom_filenames, in_opts.use_custom_gamenames,
                 in_opts.filename_category_parenthesis, in_opts.filename_case,
                 in_opts.rom_folder_organization))

\* the entry is known to the lookup: row is the record db[db_id]
TicExisting(api_game, db_id, row) ==
    /\ lookup' = lookup
    /\ IF TicSkips(row)
       THEN /\ _global_db' = _global_db
            /\ pc' = pc
       ELSE TicUpdate(api_game, db_id, TicRefreshed(row, api_game))

\* the entry is not known to the lookup: db[game_id] = row
TicNew(api_game) ==
    /\ _global_db' = DictSet(_global_db, api_game.id, NewTicRow(api_game))
    /\ lookup' = LookupSet(lookup, api_game.id, api_game.id)
    /\ pc' = pc

TicEntry(api_game) ==
    IF api_game.id \notin DOMAIN lookup THEN TicNew(api_game)
    ELSE TicExisting(api_game, lookup[api_game.id], RowOf(_global_db, lookup[api_game.id]))

\* one iteration of the loop over the listing in update_tic_csv_command
MergeTic ==
    /\ pc = "merge"
    /\ cmd = "update_tic"
    /\ listing # <<>>
    /\ listing' = Tail(listing)
    /\ TicEntry(Head(listing))
    /\ UNCHANGED <<csv_file, _global_csv_path, _global_fieldnames, cmd, load_pos, runs,
                   snapshot, last_saved>>
    /\ UNCHANGED <<harnessVars, assetVars>>

\* the record created for an itch.io entry that the lookup does not know
ItchDefaults(row, game_data) ==
    Put(Put(Put(Put(row, "id", game_data.itch_id),
                "name_original_reference", row["itch_titlename"]),
            "rom_category", "Itch"),
        "source_with_bestversion", "itch")

NewItchRow(game_data) ==
    ItchDefaults(Update([f \in Range(DEFAULT_FIELDNAMES) |-> ""], game_data), game_data)

\* int(f) of a parsed float, 0 when float() or int() raised
TruncOrZero(f) == IF f.kind = "fin" THEN FloatTrunc(f) ELSE 0

\* previous_upd: int(float(row.get('itch_upd_timestamp', "0"))), 0 on any exception
PreviousUpd(row) == TruncOrZero(ParseFloat(Get(row, "itch_upd_timestamp", "0")))

\* the lastmodified fields are cleared to signal a re-download check
ItchInvalidated(row) ==
    Put(Put(row, "itch_lastmodified_date", ""), "itch_lastmodified_timestamp", "")

\* the comparison of the timestamps: current is float(game_data['itch_upd_timestamp']),
\* and int(current) raises ValueError or OverflowError unless it is finite
ItchCompare(db_id, updated, previous_upd, current) ==
    IF current.kind # "fin"
    THEN /\ _global_db' = DictSet(_global_db, db_id, updated)
         /\ pc' = "raised"
    ELSE IF previous_upd < FloatTrunc(current)
    THEN /\ _global_db' = DictSet(_global_db, db_id, ItchInvalidated(updated))
         /\ pc' = pc
    ELSE /\ _global_db' = DictSet(_global_db, db_id, updated)
         /\ pc' = pc

\* the entry is known to the lookup: row is the record db[db_id]
ItchExisting(game_data, db_id, row) ==
    /\ lookup' = lookup
    /\ ItchCompare(db_id, Update(row, game_data), PreviousUpd(row),
                   ParseFloat(game_data.itch_upd_timestamp))

\* the entry is not known to the lookup: db[itch_id] = row
ItchNew(game_data) ==
    /\ _global_db' = DictSet(_global_db, game_data.itch_id, NewItchRow(game_data))
    /\ lookup' = LookupSet(lookup, game_data.itch_id, game_data.itch_id)
    /\ pc' = pc

ItchEntry(game_data) ==
    IF game_data.itch_id \notin DOMAIN lookup THEN ItchNew(game_data)
    ELSE ItchExisting(game_data, lookup[game_data.itch_id],
                      RowOf(_global_db, lookup[game_data.itch_id]))

\* one iteration of the loop over scrape_itch_games() in update_itch_csv_command
MergeItch ==
    /\ pc = "merge"
    /\ cmd = "update_itch"
    /\ listing # <<>>
    /\ listing' = Tail(listing)
    /\ ItchEntry(Head(listing))
    /\ UNCHANGED <<csv_file, _global_csv_path, _global_fieldnames, cmd, load_pos, runs,
                   snapshot, last_saved>>
    /\ UNCHANGED <<harnessVars, assetVars>>

\* the listing is exhausted: save_csv_database(CSV_DATABASE_PATH, db) and the
\* command returns; the save as one step, as a run that nothing interrupts shows it
Save ==
    /\ pc = "merge"
    /\ listing = <<>>
    /\ csv_file' = save_csv_database(_global_db, _global_fieldnames)
    /\ last_saved' = [saved |-> TRUE, db |-> _global_db, loaded |-> _global_db = snapshot,
                      saving |-> FALSE, found |-> csv_file.exists, header |-> csv_file.header,
                      before |-> NoFile]
    /\ pc' = "idle"
    /\ UNCHANGED <<_global_db, _global_csv_path, _global_fieldnames, cmd, load_pos,
                   listing, lookup, runs, snapshot>>
    /\ UNCHANGED <<harnessVars, assetVars>>

StoreNext ==
    \/ StartCommand
    \/ LoadBegin
    \/ LoadRow
    \/ LoadEnd
    \/ BuildLookup
    \/ MergeTic
    \/ MergeItch
    \/ Save

StoreSpec == StoreInit /\ [][StoreNext]_vars

-----------------------------------------------------------------------------
(* The interrupt specification: one process that runs a command of the     *)
(* store specification from its start to its exit, with save_csv_database   *)
(* taken write by write, a SIGINT / SIGTERM that may arrive at any point of *)
(* the command (signal_handler), and a kill of the process that no handler  *)
(* sees.  csv_file is the file as the writer left it; Python runs a signal  *)
(* handler on the main thread between two bytecodes, so the handler runs to *)
(* its end before the command goes on.                                      *)

\* the rows of the files the first command may find
InterruptRows ==
    { <<"Alpha", "5", "5.0", "", "", "h1", "", "">>,
      <<"Beta", "12345", "", "12345.0", "itch", "", "100", "">>,
      <<"Delta", "v1.0.0", "", "", "custom", "", "", "">> }

InterruptFiles ==
    {NoFile} \cup {CsvFile(StoreHeader, rows) : rows \in SeqsUpTo(InterruptRows, MaxRows)}

\* the positions of a command at which the process runs
Running == {"start", "loading", "loaded", "merge", "save_header", "save_rows"}

\* the positions between open(filepath, "w") and the end of the with block
Saving == {"save_header", "save_rows"}

\* the main thread is inside "with _global_db_lock" of load or of save
LockHeld == pc \in {"loading", "save_header", "save_rows"}

\* a lock that its owner cannot take a second time
LockAcquire_plain(held_by_caller) == ~held_by_caller

\* threading.RLock().acquire() by a thread: the owner takes the lock again, and
\* no other thread of the command ever holds it
RLockAcquire(held_by_caller) == TRUE

\* "if _global_csv_path and _global_db" of signal_handler
signal_handler_saves(path, db) == path /\ db # <<>>

\* the file f written by a second handle, after which the first handle, whose
\* writes so far are old, is closed: its buffer lands on the beginning of f
WrittenOver(f, old) ==
    CsvFile(IF old.header # <<>> THEN old.header ELSE f.header,
            [i \in 1..(IF Len(old.rows) > Len(f.rows) THEN Len(old.rows) ELSE Len(f.rows)) |->
                IF i <= Len(old.rows) THEN old.rows[i] ELSE f.rows[i]])

\* what the disk holds of the writes f of an open handle: a flushed prefix
FlushedPrefixes(f) ==
    {CsvFile(<<>>, <<>>)} \cup {CsvFile(f.header, SubSeq(f.rows, 1, j)) : j \in 0..Len(f.rows)}

\* the file after the save of signal_handler and the exit through the with
\* blocks of an interrupted save
HandlerFile(written) == IF pc \in Saving THEN WrittenOver(written, csv_file) ELSE written

\* signal_handler with something to save: the lock, the save, sys.exit(0)
HandlerSave(acquired) ==
    IF acquired
    THEN /\ csv_file' = HandlerFile(save_csv_database(_global_db, _global_fieldnames))
         /\ pc' = "exit0"
    ELSE /\ csv_file' = csv_file
         /\ pc' = "deadlock"

\* signal_handler(signum, frame)
Signal ==
    /\ pc \in Running
    /\ IF signal_handler_saves(_global_csv_path, _global_db)
       THEN HandlerSave(RLockAcquire(LockHeld))
       ELSE /\ csv_file' = csv_file
            /\ pc' = "exit0"
    /\ UNCHANGED <<_global_db, _global_csv_path, _global_fieldnames, cmd, load_pos,
                   listing, lookup, runs, snapshot, last_saved>>
    /\ UNCHANGED <<harnessVars, assetVars>>

\* the process is killed (SIGKILL, power loss): of an open file the disk keeps
\* what was flushed
Crash ==
    /\ pc \in Running
    /\ IF pc \in Saving THEN csv_file' \in FlushedPrefixes(csv_file) ELSE csv_file' = csv_file
    /\ pc' = "killed"
    /\ UNCHANGED <<_global_db, _global_csv_path, _global_fieldnames, cmd, load_pos,
                   listing, lookup, runs, snapshot, last_saved>>
    /\ UNCHANGED <<harnessVars, assetVars>>

\* save_csv_database up to open(filepath, "w"), which truncates the file
SaveOpen ==
    /\ pc = "merge"
    /\ listing = <<>>
    /\ csv_file' = CsvFile(<<>>, <<>>)
    /\ last_saved' = [saved |-> FALSE, db |-> _global_db, loaded |-> _global_db = snapshot,
                      saving |-> TRUE, found |-> csv_file.exists, header |-> csv_file.header,
                      before |-> csv_file]
    /\ pc' = "save_header"
    /\ UNCHANGED <<_global_db, _global_csv_path, _global_fieldnames, cmd, load_pos,
                   listing, lookup, runs, snapshot>>
    /\ UNCHANGED <<harnessVars, assetVars>>

\* writer.writeheader()
SaveHeader ==
    /\ pc = "save_header"
    /\ csv_file' = CsvFile(final_fieldnames(_global_db, _global_fieldnames), <<>>)
    /\ pc' = "save_rows"
    /\ UNCHANGED <<_global_db, _global_csv_path, _global_fieldnames, cmd, load_pos,
                   listing, lookup, runs, snapshot, last_saved>>
    /\ UNCHANGED <<harnessVars, assetVars>>

\* writer.writerows(sorted_rows), one row
SaveRow ==
    /\ pc = "save_rows"
    /\ Len(csv_file.rows) < Len(_global_db)
    /\ csv_file' = CsvFile(csv_file.header,
                           Append(csv_file.rows,
                                  WriteRow(csv_file.header,
                                           Sorted(_global_db)[Len(csv_file.rows) + 1].row)))
    /\ UNCHANGED <<_global_db, _global_csv_path, _global_fieldnames, pc, cmd, load_pos,
                   listing, lookup, runs, snapshot, last_saved>>
    /\ UNCHANGED <<harnessVars, assetVars>>

\* the file is closed, save_csv_database and the command return
SaveClose ==
    /\ pc = "save_rows"
    /\ Len(csv_file.rows) = Len(_global_db)
    /\ last_saved' = [last_saved EXCEPT !.saved = TRUE, !.saving = FALSE]
    /\ pc' = "idle"
    /\ UNCHANGED <<csv_file, _global_db, _global_csv_path, _global_fieldnames, cmd,
                   load_pos, listing, lookup, runs, snapshot>>
    /\ UNCHANGED <<harnessVars, assetVars>>

\* the process has started a command; the upstream site will answer with some
\* listing
InterruptInit ==
    /\ csv_file \in InterruptFiles
    /\ _global_db = <<>>
    /\ _global_csv_path = FALSE
    /\ _global_fieldnames = <<>>
    /\ pc = "start"
    /\ \E c \in Commands :
          /\ cmd = c
          /\ listing \in Listings(c)
    /\ load_pos = 0
    /\ lookup = <<>>
    /\ runs = 1
    /\ snapshot = <<>>
    /\ last_saved = NoSave
    /\ HarnessIdle
    /\ AssetIdle

InterruptNext ==
    \/ LoadBegin
    \/ LoadRow
    \/ LoadEnd
    \/ BuildLookup
    \/ MergeTic
    \/ MergeItch
    \/ SaveOpen
    \/ SaveHeader
    \/ SaveRow
    \/ SaveClose
    \/ Signal
    \/ Crash

InterruptSpec == InterruptInit /\ [][InterruptNext]_vars

-----------------------------------------------------------------------------
(* The save specification: the commands of the store specification run      *)
(* against files whose records share display names and id cells, against a  *)
(* file of zero bytes and against no file.                                  *)

\* the lines such a file may hold, cells in the order of StoreHeader: one game
\* recorded once from each site, and a second game whose name extends the first
SaveRows ==
    { <<"Zed", "9", "7", "", "", "h7", "", "">>,
      <<"Zed", "9", "", "9", "itch", "", "100", "">>,
      <<"Zed (demo)", "3", "3", "", "", "h3", "", "">> }

\* a file of zero bytes: it exists and has no header line
EmptyFile == CsvFile(<<>>, <<>>)

SaveFiles ==
    {NoFile, EmptyFile} \cup {CsvFile(StoreHeader, rows) : rows \in SeqsUpTo(SaveRows, MaxRows)}

SaveInit ==
    /\ csv_file \in SaveFiles
    /\ _global_db = <<>>
    /\ _global_csv_path = FALSE
    /\ _global_fieldnames = <<>>
    /\ pc = "idle"
    /\ cmd = ""
    /\ load_pos = 0
    /\ listing = <<>>
    /\ lookup = <<>>
    /\ runs = 0
    /\ snapshot = <<>>
    /\ last_saved = NoSave
    /\ HarnessIdle
    /\ AssetIdle

SaveSpec == SaveInit /\ [][StoreNext]_vars

-----------------------------------------------------------------------------
(* The resolver specification: get_primary_game_id is called once on a      *)
(* record drawn from ResolveRows.                                           *)

\* marks a column the record does not have
Absent == "<absent>"

\* the record that holds the cells other than Absent
RowFrom(cells) == [c \in {k \in DOMAIN cells : cells[k] # Absent} |-> cells[c]]

ResolveSources ==
    {Absent, "", " ", "tic80com", " TIC80COM ", "itch", "Itch\t", "custom", "itchy"}

ResolveRows ==
    { RowFrom([source_with_bestversion |-> s, tic_id |-> t, itch_id |-> i, id |-> d]) :
        s \in ResolveSources, t \in {Absent, "", "5"}, i \in {Absent, "", "5", "12345"},
        d \in {Absent, "", "5", "AB12"} }

ResolveInit ==
    /\ StoreIdle
    /\ AssetIdle
    /\ pc = "ready"
    /\ in_row \in ResolveRows
    /\ in_opts = DefaultOpts
    /\ local_tz = 0
    /\ out = NoCall
    /\ prev_call = NoCall

\* the call get_primary_game_id(in_row)
ResolvePrimary ==
    /\ pc = "ready"
    /\ out' = [called |-> TRUE, row |-> in_row, result |-> get_primary_game_id(in_row)]
    /\ pc' = "done"
    /\ UNCHANGED <<in_row, in_opts, local_tz, prev_call>>
    /\ UNCHANGED <<storeVars, assetVars>>

\* the call get_secondary_game_id(in_row); result is its local primary_id
ResolveSecondary ==
    /\ pc = "ready"
    /\ out' = [called |-> TRUE, row |-> in_row, result |-> get_primary_game_id(in_row),
               secondary |-> get_secondary_game_id(in_row)]
    /\ pc' = "done"
    /\ UNCHANGED <<in_row, in_opts, local_tz, prev_call>>
    /\ UNCHANGED <<storeVars, assetVars>>

ResolveNext ==
    \/ ResolvePrimary
    \/ ResolveSecondary

ResolveSpec == ResolveInit /\ [][ResolveNext]_vars

-----------------------------------------------------------------------------------------------------------------------------------------------------
(* The generator specification: generate_filename_and_gamename is called    *)
(* again and again on a record drawn from GenRows; between the calls a      *)
(* description field of the record is edited, and the tool is started again *)
(* under another time zone setting.                                         *)

TimeZones == {0, -18000}

GenOpts ==
    { DefaultOpts,
      [use_custom_filenames |-> FALSE, use_custom_gamenames |-> TRUE,
       filename_category_parenthesis |-> FALSE, filename_case |-> "uppercase",
       rom_folder_organization |-> "multiple"] }

Descriptions == {"", "a puzzle game"}

GenRows ==
    { RowFrom([name_original_reference |-> "Foo: bar", name_overwrite |-> "",
               tic_category |-> "Tools", tic_description |-> "",
               id |-> "AB12", tic_id |-> "5", itch_id |-> "12345",
               source_with_bestversion |-> s, overwrite_upd_timestamp |-> o,
               itch_upd_timestamp |-> u, itch_lastmodified_timestamp |-> l,
               itch_pub_timestamp |-> p, tic_upd_date |-> tu, tic_pub_date |-> tp]) :
        s \in {Absent, "", "tic80com", "itch"},
        o \in {"", "0", "90000", "abc", "inf"},
        u \in {"", "0", "200000"},
        l \in {"", "100000", "nan"},
        p \in {"", "300000"},
        tu \in {"", "2022-01-01"},
        tp \in {"", "2020-01-01"} }

GenInit ==
    /\ StoreIdle
    /\ AssetIdle
    /\ pc = "ready"
    /\ in_row \in GenRows
    /\ in_opts \in GenOpts
    /\ local_tz \in TimeZones
    /\ out = NoCall
    /\ prev_call = NoCall

\* the call generate_filename_and_gamename(in_row, ...in_opts); the function
\* assigns to no key of row ("edited": the caller has changed the record or the
\* options since the call before)
Generate ==
    /\ pc \in {"ready", "edited"}
    /\ prev_call' = out
    /\ out' = [called |-> TRUE, row |-> in_row, opts |-> in_opts, tz |-> local_tz,
               info |-> generate_filename_and_gamename(in_row,
                            in_opts.use_custom_filenames, in_opts.use_custom_gamenames,
                            in_opts.filename_category_parenthesis, in_opts.filename_case,
                            in_opts.rom_folder_organization)]
    /\ UNCHANGED <<pc, in_row, in_opts, local_tz>>
    /\ UNCHANGED <<storeVars, assetVars>>

\* the caller edits a description of the record between two calls
EditDescription ==
    /\ pc = "ready"
    /\ \E d \in Descriptions \ {in_row["tic_description"]} :
          in_row' = Put(in_row, "tic_description", d)
    /\ UNCHANGED <<pc, in_opts, local_tz, out, prev_call>>
    /\ UNCHANGED <<storeVars, assetVars>>

\* the tool runs under another time zone setting (TZ, or the zone of the host)
SetTimeZone ==
    /\ pc = "ready"
    /\ \E tz \in TimeZones \ {local_tz} : local_tz' = tz
    /\ UNCHANGED <<pc, in_row, in_opts, out, prev_call>>
    /\ UNCHANGED <<storeVars, assetVars>>

GenNext ==
    \/ Generate
    \/ EditDescription
    \/ SetTimeZone

GenSpec == GenInit /\ [][GenNext]_vars

-----------------------------------------------------------------------------
(* The naming specification: get_rom_category is called on a record drawn   *)
(* from NamingRows, or generate_filename_and_gamename is called on it, the  *)
(* caller then changes a category field, a date field or one of the two     *)
(* folder options, and calls it again.                                      *)

NamingOpts ==
    { [use_custom_filenames |-> u, use_custom_gamenames |-> u,
       filename_category_parenthesis |-> p, filename_case |-> c,
       rom_folder_organization |-> o] :
        u \in BOOLEAN, p \in BOOLEAN, c \in {"unchanged", "uppercase", "lowercase"},
        o \in {"single", "multiple"} }

NamingRows ==
    { RowFrom([name_original_reference |-> n, name_overwrite |-> w,
               rom_category |-> r, tic_category |-> t, source_with_bestversion |-> s,
               id |-> "AB12", tic_id |-> "5", itch_id |-> "12345",
               overwrite_upd_timestamp |-> "", tic_upd_date |-> ""]) :
        n \in {"Foo: bar", " a  b\t?"},
        w \in {Absent, " My <Game> "},
        r \in {Absent, "", "A/B s"},
        t \in {Absent, "", "Tools", "Demoscene", "Sports"},
        s \in {Absent, "", "tic80com", "itch", "custom"} }

\* the values an edit gives to a category field or to a date field
CategoryEdits == {[field |-> "rom_category", to |-> "WIP"], [field |-> "tic_category", to |-> "Games"]}

DateEdits ==
    {[field |-> "overwrite_upd_timestamp", to |-> "90000"],
     [field |-> "overwrite_upd_timestamp", to |-> "inf"],
     [field |-> "tic_upd_date", to |-> "2022-01-01"]}

NamingInit ==
    /\ StoreIdle
    /\ AssetIdle
    /\ pc = "ready"
    /\ in_row \in NamingRows
    /\ in_opts \in NamingOpts
    /\ local_tz = 0
    /\ out = NoCall
    /\ prev_call = NoCall

\* the call get_rom_category(in_row)
Categorize ==
    /\ pc = "ready"
    /\ ~out.called
    /\ out' = [called |-> TRUE, row |-> in_row, category |-> get_rom_category(in_row)]
    /\ pc' = "done"
    /\ UNCHANGED <<in_row, in_opts, local_tz, prev_call>>
    /\ UNCHANGED <<storeVars, assetVars>>

\* between two calls the caller sets a category field or a date field of the record
EditField ==
    /\ pc = "ready"
    /\ out.called
    /\ \E e \in CategoryEdits \cup DateEdits : in_row' = Put(in_row, e.field, e.to)
    /\ pc' = "edited"
    /\ UNCHANGED <<in_opts, local_tz, out, prev_call>>
    /\ UNCHANGED <<storeVars, assetVars>>

\* between two calls the tool is started with the other value of
\* --filename-category-parenthesis or of --rom-folder-organization
EditOption ==
    /\ pc = "ready"
    /\ out.called
    /\ \/ in_opts' = [in_opts EXCEPT !.filename_category_parenthesis = ~@]
       \/ in_opts' = [in_opts EXCEPT !.rom_folder_organization = IF @ = "single" THEN "multiple" ELSE "single"]
    /\ pc' = "edited"
    /\ UNCHANGED <<in_row, local_tz, out, prev_call>>
    /\ UNCHANGED <<storeVars, assetVars>>

NamingNext ==
    \/ Categorize
    \/ Generate
    \/ EditField
    \/ EditOption

NamingSpec == NamingInit /\ [][NamingNext]_vars

-----------------------------------------------------------------------------
(* The normalization specification: normalize_id is called on an identifier *)
(* cell drawn from IdCells, and then once more on what it returned.         *)

\* the text of an identifier cell, with and without blanks around it
IdTexts ==
    {"", "329", "329.0", "12345.0", "5.7", "-0.0", ".5", "1e3", "1_0", "AB12", "v1.0.0",
     "0x10", "nan", "inf", "-inf", "Infinity"}

IdCells == {l \o t \o r : l \in {"", " "}, t \in IdTexts, r \in {"", " ", "\t"}}

NormalizeInit ==
    /\ StoreIdle
    /\ AssetIdle
    /\ pc = "ready"
    /\ in_row \in {[id |-> x] : x \in IdCells}
    /\ in_opts = DefaultOpts
    /\ local_tz = 0
    /\ out = NoCall
    /\ prev_call = NoCall

\* the outcome of the call normalize_id(id_str)
NormalizeCall(id_str) ==
    [called |-> TRUE, arg |-> id_str, raised |-> normalize_id_raises(id_str),
     result |-> IF normalize_id_raises(id_str) THEN "" ELSE normalize_id(id_str)]

\* row['id'] = normalize_id(row['id'])
Normalize ==
    /\ pc = "ready"
    /\ out' = NormalizeCall(in_row["id"])
    /\ pc' = IF normalize_id_raises(in_row["id"]) THEN "raised" ELSE "normalized"
    /\ UNCHANGED <<in_row, in_opts, local_tz, prev_call>>
    /\ UNCHANGED <<storeVars, assetVars>>

\* normalize_id applied to the identifier it returned, as the load of the file
\* saved with it does
NormalizeAgain ==
    /\ pc = "normalized"
    /\ prev_call' = out
    /\ out' = NormalizeCall(out.result)
    /\ pc' = "done"
    /\ UNCHANGED <<in_row, in_opts, local_tz>>
    /\ UNCHANGED <<storeVars, assetVars>>

NormalizeNext ==
    \/ Normalize
    \/ NormalizeAgain

NormalizeSpec == NormalizeInit /\ [][NormalizeNext]_vars

-----------------------------------------------------------------------------
(* The asset commands: get_tic_roms, get_itch_roms, get_ipfs_roms and       *)
(* sync_filenames.  disk is the set of files under ROMS_PATH ("roms"),      *)
(* OLD_ROMS_PATH ("old") and MEDIA_PATH ("media"): dir is the folder below  *)
(* the tree ("" for the tree itself), data stands for the bytes.  The       *)
(* modification time of a file is left out: set_mtime and the blocks around *)
(* os.utime catch every exception and nothing reads the time back.          *)

File(tree, dir, name, data) == [tree |-> tree, dir |-> dir, name |-> name, data |-> data]

\* "no path": find_game_file / find_media_file returned None
NoPath == File("none", "", "", "")

\* sub in s
Contains(s, sub) ==
    \E i \in 1..(Len(s) - Len(sub) + 1) : SubSeq(s, i, i + Len(sub) - 1) = sub

\* s.split(sep)[0]
RECURSIVE SplitHead(_, _)
SplitHead(s, sep) ==
    IF Len(s) < Len(sep) THEN s
    ELSE IF SubSeq(s, 1, Len(sep)) = sep THEN ""
    ELSE Char(s, 1) \o SplitHead(Tail(s), sep)

\* get_hashes of a file that can be read: three digests of its bytes
get_hashes(f) == [md5 |-> f.data, sha1 |-> "sha1:" \o f.data, crc |-> "crc:" \o f.data]

\* the folders find_game_file scans: the sub-folders of ROMS_PATH (not those
\* below them) when the organization is "multiple", else ROMS_PATH itself
ScannedDir(dir, rom_folder_organization) ==
    IF rom_folder_organization = "multiple" THEN dir # "" /\ ~Contains(dir, "/")
    ELSE dir = ""

\* a *.tic or *.png file of a scanned folder whose name holds "- <id> ("
GameFileMatches(f, game_id, rom_folder_organization) ==
    /\ f.tree = "roms"
    /\ ScannedDir(f.dir, rom_folder_organization)
    /\ EndsWith(f.name, ".tic") \/ EndsWith(f.name, ".png")
    /\ Contains(f.name, "- " \o game_id \o " (")

\* in one folder the *.tic files are looked at before the *.png files
FirstInFolder(files, f) ==
    EndsWith(f.name, ".tic") \/ ~\E g \in files : g.dir = f.dir /\ EndsWith(g.name, ".tic")

OrNoPath(files) == IF files = {} THEN {NoPath} ELSE files

\* find_game_file: the paths it may return; iterdir() and glob() yield the
\* folders and the files in the order of the file system, which is arbitrary
GameFilesIn(matching) == OrNoPath({f \in matching : FirstInFolder(matching, f)})

find_game_file(files, game_id, rom_folder_organization) ==
    IF game_id = "" THEN {NoPath}
    ELSE GameFilesIn({f \in files : GameFileMatches(f, game_id, rom_folder_organization)})

\* "YYYY-MM-DD" as the pattern \d{4}-\d{2}-\d{2} reads it
IsDateText(s) ==
    /\ Len(s) = 10
    /\ \A i \in {1, 2, 3, 4, 6, 7, 9, 10} : IsDigit(Char(s, i))
    /\ Char(s, 5) = "-" /\ Char(s, 8) = "-"

\* the name ends with " - <id>", then nothing, " ()" or " (<date>)", then ".png"
\* (the id is put into the pattern as it is; the ids of the inputs hold no
\* character the pattern language reads otherwise, apart from ".")
MediaNameMatches(name, game_id) ==
    \/ EndsWith(name, " - " \o game_id \o ".png")
    \/ EndsWith(name, " - " \o game_id \o " ().png")
    \/ /\ Len(name) >= Len(game_id) + 20
       /\ EndsWith(name, ").png")
       /\ IsDateText(SubSeq(name, Len(name) - 14, Len(name) - 5))
       /\ EndsWith(SubSeq(name, 1, Len(name) - 15), " - " \o game_id \o " (")

\* find_media_file: the paths it may return (glob order is arbitrary)
find_media_file(files, media_type, game_id) ==
    IF game_id = "" THEN {NoPath}
    ELSE OrNoPath({f \in files : f.tree = "media" /\ f.dir = media_type
                                  /\ EndsWith(f.name, ".png")
                                  /\ MediaNameMatches(f.name, game_id)})

\* shutil.move(src, dst) / Path.rename onto a file path: dst is replaced
MoveFile(files, src, tree, dir, name) ==
    ({f \in files : ~(f.tree = tree /\ f.dir = dir /\ f.name = name)} \ {src})
        \cup {File(tree, dir, name, src.data)}

\* shutil.copy(src, dst), and open(dst, "wb").write(data)
WriteFileAt(files, tree, dir, name, data) ==
    {f \in files : ~(f.tree = tree /\ f.dir = dir /\ f.name = name)}
        \cup {File(tree, dir, name, data)}

\* Path.exists()
Exists(files, tree, dir, name) ==
    \E f \in files : f.tree = tree /\ f.dir = dir /\ f.name = name

SamePath(f, tree, dir, name) == f.tree = tree /\ f.dir = dir /\ f.name = name

-----------------------------------------------------------------------------
(* What the sites answer.  The answers stay the same over all runs.         *)

\* parse_playpage of the play page of a cart of tic80.com
Playpage(game_id) ==
    [tic_author_name |-> "ann", tic_uploader_name |-> "ann", tic_uploader_id |-> "7",
     tic_pub_timestamp |-> "86400", tic_upd_timestamp |-> "172800",
     tic_pub_date |-> "1970-01-02", tic_upd_date |-> "1970-01-03",
     tic_description |-> "", tic_description_extra |-> ""]

\* the bytes served at a download URL, at an IPFS CID, by an itch.io page
CartAt(url) == "cart:" \o url

\* the answers to the requests made for one record:
\*   page      the page of the record (play page, itch.io page) is served
\*   cart      "ok": the cartridge is served and written; "none": the request
\*             fails or no cartridge is found; "oserror": the folder cannot be
\*             made or the file cannot be opened for writing (OSError)
\*   lastmod   the response carries a Last-Modified header that parses
\*   image     the cover / screenshot is served and converted
Answers ==
    [page : BOOLEAN, cart : {"ok", "none", "oserror"}, lastmod : BOOLEAN, image : BOOLEAN]

\* the answers that differ in what the command reads
RelevantAnswers ==
    {a \in Answers : /\ (~a.page => a.cart = "none" /\ ~a.lastmod /\ ~a.image)
                     /\ (a.cart # "ok" => ~a.lastmod)}

\* Last-Modified as get_itch_roms stores it
LastModifiedDate == "1970-01-05"

LastModifiedTimestamp == "345600"

-----------------------------------------------------------------------------
(* get_tic_roms_command                                                     *)

unusual_cat == {"WIP", "Demoscene", "Livecoding", "Music", "Tools", "Tech"}

\* the lambda of download-almost-all / download-curated-collection on the
\* column include_column
CollectionFilter(game_category, r, include_column) ==
    /\ game_category # ""
    /\ \/ game_category \in unusual_cat /\ Get(r, include_column, "F") = "T"
       \/ game_category \notin unusual_cat /\ Get(r, include_column, "T") # "F"

\* filter_func, chosen by args.download_all / args.download_almost_all
filter_func(r, criteria) ==
    CASE criteria = "download-all" -> TRUE
      [] criteria = "download-almost-all" ->
            CollectionFilter(get_rom_category(r), r, "include_in_collection")
      [] OTHER -> CollectionFilter(get_rom_category(r), r, "include_in_curated_collection")

\* games_to_process after both filters (line 50 and lines 55-63)
TicSelects(r, criteria) ==
    /\ filter_func(r, criteria)
    /\ Get(r, "file_sha1", "") = ""
    /\ ~TicSkips(r)

\* the keys of a sequence of entries of the store
KeysOf(entries) == [i \in 1..Len(entries) |-> entries[i].key]

\* the result of the loop body for one record: the record and the files as
\* the body leaves them, whether the cartridge was fetched and written, and
\* how the body ended: "done", "failed" (a request failed and the body went
\* on or skipped the record) or "raised" (an exception left the command)
Res(row, files, fetched, status) ==
    [row |-> row, files |-> files, fetched |-> fetched, status |-> status]

GenerateWith(row, opts) ==
    generate_filename_and_gamename(row, opts.use_custom_filenames, opts.use_custom_gamenames,
        opts.filename_category_parenthesis, opts.filename_case, opts.rom_folder_organization)

\* the file at a path that exists
FileAt(files, tree, dir, name) == CHOOSE f \in files : SamePath(f, tree, dir, name)

\* one media folder of the first pass: a file found under another name is moved
MediaRenamed(files, media_type, found, new_media_name) ==
    IF found # NoPath /\ found.name # new_media_name
    THEN MoveFile(files, found, "media", media_type, new_media_name)
    ELSE files

\* the cover is copied to the screenshots when those are missing
TicCopy(row, files, fetched, status, has_screenshot, has_title, has_cover, name) ==
    Res(row,
        IF ~has_screenshot /\ (has_cover \/ has_title)
        THEN WriteFileAt(files, "media", "screenshots", name,
                 FileAt(files, "media", IF has_cover THEN "cart-covers" ELSE "titlescreens",
                        name).data)
        ELSE files,
        fetched, status)

\* the cover is downloaded after a download of the cartridge or when missing
TicCover(row, files, fetched, status, has_screenshot, has_title, has_cover, wanted, api_md5, name) ==
    TicCopy(row,
            IF wanted THEN WriteFileAt(files, "media", "cart-covers", name, "cover:" \o Lower(api_md5))
            ELSE files,
            fetched, status, has_screenshot, has_title, has_cover \/ wanted, name)

\* step 4 of the loop body: the media of the record
TicMedia(row, files, fetched, status, should_download, a, game_id, api_md5, name) ==
    { TicCover(row,
          MediaRenamed(MediaRenamed(MediaRenamed(files, "screenshots", s, name),
                                    "titlescreens", t, name), "cart-covers", c, name),
          fetched, status, s # NoPath, t # NoPath, c # NoPath,
          (should_download \/ c = NoPath) /\ a.image, api_md5, name) :
        s \in find_media_file(files, "screenshots", game_id),
        t \in find_media_file(files, "titlescreens", game_id),
        c \in find_media_file(files, "cart-covers", game_id) }

\* step 3: the download, and the hashes of the file it wrote
TicDownload(row, files, should_download, a, game_id, api_md5, dir, info) ==
    IF ~should_download \/ Get(row, "download_url", "") = ""
    THEN TicMedia(row, files, FALSE, "done", should_download, a, game_id, api_md5,
                  info.image_filename)
    ELSE IF a.cart = "oserror" THEN {Res(row, files, FALSE, "raised")}
    ELSE IF a.cart = "none"
    THEN TicMedia(row, files, FALSE, "failed", should_download, a, game_id, api_md5,
                  info.image_filename)
    ELSE TicMedia(Update(row, [file_md5 |-> CartAt(row["download_url"]),
                               file_sha1 |-> "sha1:" \o CartAt(row["download_url"]),
                               file_CRC |-> "crc:" \o CartAt(row["download_url"])]),
                  WriteFileAt(files, "roms", dir, info.rom_filename, CartAt(row["download_url"])),
                  TRUE, "done", should_download, a, game_id, api_md5, info.image_filename)

\* the file found on disk: kept (and renamed) when its MD5 is that of the
\* listing, else moved to OLD_ROMS_PATH
TicOld(row, files, a, game_id, api_md5, dir, info, old) ==
    IF old # NoPath /\ Lower(get_hashes(old).md5) = Lower(api_md5)
    THEN TicDownload(row,
             IF SamePath(old, "roms", dir, info.rom_filename) THEN files
             ELSE MoveFile(files, old, "roms", dir, info.rom_filename),
             FALSE, a, game_id, api_md5, dir, info)
    ELSE TicDownload(row,
             IF old # NoPath THEN MoveFile(files, old, "old", "", old.name) ELSE files,
             TRUE, a, game_id, api_md5, dir, info)

\* step 2: the name under the dates of the play page, and the target folder
\* (row["tic_category"] raises KeyError when the column is missing)
TicTarget(row, files, a, opts, game_id, api_md5, info) ==
    IF info.raised \/ (opts.rom_folder_organization = "multiple" /\ "tic_category" \notin DOMAIN row)
    THEN {Res(row, files, FALSE, "raised")}
    ELSE UNION { TicOld(row, files, a, game_id, api_md5,
                        IF opts.rom_folder_organization = "multiple" THEN row["tic_category"] ELSE "",
                        info, old) :
                 old \in find_game_file(files, game_id, opts.rom_folder_organization) }

\* "if not row.get('tic_upd_timestamp') and row.get('tic_pub_timestamp')"
EnsureUpd(row) ==
    IF Get(row, "tic_upd_timestamp", "") = "" /\ Get(row, "tic_pub_timestamp", "") # ""
    THEN Put(Put(row, "tic_upd_timestamp", row["tic_pub_timestamp"]), "tic_upd_date", row["tic_pub_date"])
    ELSE row

TicScraped(row, files, a, opts, game_id, api_md5) ==
    TicTarget(row, files, a, opts, game_id, api_md5, GenerateWith(row, opts))

\* step 1: the play page; a request that fails skips the record
TicNamed(row, files, a, opts, game_id, info) ==
    IF info.raised THEN {Res(row, files, FALSE, "raised")}
    ELSE IF game_id = "" THEN {Res(row, files, FALSE, "done")}
    ELSE IF ~a.page THEN {Res(row, files, FALSE, "failed")}
    ELSE TicScraped(EnsureUpd(Update(row, Playpage(game_id))), files, a, opts, game_id,
                    Get(row, "tic_md5", ""))

\* the body of the loop of get_tic_roms_command over games_to_process, for the
\* record row and the answers a: the set of results it may have
TicRecord(row, files, a, opts) ==
    TicNamed(row, files, a, opts, get_primary_game_id(row), GenerateWith(row, opts))

-----------------------------------------------------------------------------
(* get_itch_roms_command                                                    *)

\* games_to_check (line 34): the source is compared as it is written
ItchSelects(r) ==
    /\ "source_with_bestversion" \in DOMAIN r
    /\ r["source_with_bestversion"] = "itch"
    /\ Get(r, "itch_lastmodified_date", "") = ""

\* str.removesuffix
RemoveSuffix(s, suffix) ==
    IF EndsWith(s, suffix) THEN SubSeq(s, 1, Len(s) - Len(suffix)) ELSE s

\* the first screenshot of the page: downloaded unless it is there, and copied
\* to the screenshots when those have no file of the curated name
ItchScreenshot(files, a, image_filename, target_filename) ==
    IF Exists(files, "media", "itch-screenshots", target_filename) \/ ~a.image THEN files
    ELSE IF Exists(files, "media", "screenshots", image_filename)
    THEN WriteFileAt(files, "media", "itch-screenshots", target_filename, "shot:1")
    ELSE WriteFileAt(WriteFileAt(files, "media", "itch-screenshots", target_filename, "shot:1"),
                     "media", "screenshots", image_filename, "shot:1")

\* lines 88-139: the final name; the old ROM is removed; the download is
\* renamed, which raises when the removal took the download itself; the
\* screenshots
ItchRenamed(row, files, a, dir, downloaded_name, info, old) ==
    IF info.raised THEN {Res(row, files, TRUE, "raised")}
    ELSE IF old # NoPath /\ SamePath(old, "roms", dir, downloaded_name)
    THEN {Res(row, {f \in files : ~SamePath(f, "roms", dir, downloaded_name)}, TRUE, "raised")}
    ELSE {Res(row,
              ItchScreenshot(
                  MoveFile(files \ {old}, FileAt(files, "roms", dir, downloaded_name),
                           "roms", dir, info.rom_filename),
                  a, info.image_filename,
                  RemoveSuffix(info.image_filename, ".png") \o " (1).png"),
              TRUE, "done")}

\* lines 72-85: the hashes, and the date of the Last-Modified header if any
ItchHashed(row, data, a) ==
    Update(Update(row, [file_md5 |-> data, file_sha1 |-> "sha1:" \o data, file_CRC |-> "crc:" \o data]),
           IF a.lastmod
           THEN [itch_lastmodified_date |-> LastModifiedDate,
                 itch_lastmodified_timestamp |-> LastModifiedTimestamp]
           ELSE <<>>)

ItchStored(row, files, a, opts, dir, downloaded_name, old) ==
    ItchRenamed(row, files, a, dir, downloaded_name, GenerateWith(row, opts), old)

\* download_itch_rom: None when a request fails or no cartridge is found, else
\* the cartridge is written to <pre_filename>.tic in the target folder
ItchDownload(row, files, a, opts, dir, downloaded_name, old) ==
    IF ~a.page \/ a.cart = "none" THEN {Res(row, files, FALSE, "failed")}
    ELSE ItchStored(ItchHashed(row, CartAt(row["itch_page"]), a),
                    WriteFileAt(files, "roms", dir, downloaded_name, CartAt(row["itch_page"])),
                    a, opts, dir, downloaded_name, old)

\* lines 43-61: the name, the target folder (mkdir raises OSError when it
\* cannot be made), the file of the record found on disk
ItchNamed(row, files, a, opts, dir, info) ==
    IF info.raised \/ a.cart = "oserror" \/ ~({"id", "itch_id"} \subseteq DOMAIN row)
    THEN {Res(row, files, FALSE, "raised")}
    ELSE UNION { ItchDownload(row, files, a, opts, dir,
                              SplitHead(info.rom_filename, " - ") \o ".tic", old) :
                 old \in find_game_file(files, row["itch_id"], opts.rom_folder_organization) }

\* the body of the loop of get_itch_roms_command over games_to_check
ItchRecord(row, files, a, opts) ==
    IF Get(row, "itch_page", "") = "" THEN {Res(row, files, FALSE, "done")}
    ELSE ItchNamed(row, files, a, opts,
                   IF opts.rom_folder_organization = "multiple" THEN "Itch" ELSE "",
                   GenerateWith(row, opts))

-----------------------------------------------------------------------------
(* get_ipfs_roms_command                                                    *)

\* rows_to_process (lines 41-45)
IpfsSelects(r) ==
    /\ Lower(Strip(Get(r, "source_with_bestversion", ""))) = "ipfs"
    /\ Get(r, "ipfs_cid", "") # ""

\* lines 198-215: the media found under another name are renamed
IpfsMedia(row, files, fetched, status, game_id, name) ==
    { Res(row,
          MediaRenamed(MediaRenamed(MediaRenamed(files, "screenshots", s, name),
                                    "titlescreens", t, name), "cart-covers", c, name),
          fetched, status) :
        s \in find_media_file(files, "screenshots", game_id),
        t \in find_media_file(files, "titlescreens", game_id),
        c \in find_media_file(files, "cart-covers", game_id) }

\* lines 121-193: every gateway is tried; download_file raising OSError is
\* caught with the other exceptions; when all fail the record is skipped
IpfsDownload(row, files, should_download, a, game_id, dir, info) ==
    IF ~should_download
    THEN IpfsMedia(row, files, FALSE, "done", game_id, info.image_filename)
    ELSE IF a.cart # "ok" THEN {Res(row, files, FALSE, "failed")}
    ELSE IpfsMedia(Update(row, [file_md5 |-> CartAt(row["ipfs_cid"]),
                                file_sha1 |-> "sha1:" \o CartAt(row["ipfs_cid"]),
                                file_CRC |-> "crc:" \o CartAt(row["ipfs_cid"])]),
                   WriteFileAt(files, "roms", dir, info.rom_filename, CartAt(row["ipfs_cid"])),
                   TRUE, "done", game_id, info.image_filename)

\* lines 94-116: the file on disk is kept (and renamed) when its SHA1 is the
\* stored one, else moved to OLD_ROMS_PATH
IpfsOld(row, files, a, game_id, dir, info, old, stored_sha1) ==
    IF old # NoPath /\ stored_sha1 # "" /\ Lower(get_hashes(old).sha1) = Lower(stored_sha1)
    THEN IpfsDownload(row,
             IF SamePath(old, "roms", dir, info.rom_filename) THEN files
             ELSE MoveFile(files, old, "roms", dir, info.rom_filename),
             FALSE, a, game_id, dir, info)
    ELSE IpfsDownload(row,
             IF old # NoPath THEN MoveFile(files, old, "old", "", old.name) ELSE files,
             TRUE, a, game_id, dir, info)

\* lines 55-91 (row["rom_category"] raises KeyError when the column is missing)
IpfsNamed(row, files, a, opts, game_id, info) ==
    IF info.raised \/ (opts.rom_folder_organization = "multiple" /\ "rom_category" \notin DOMAIN row)
    THEN {Res(row, files, FALSE, "raised")}
    ELSE UNION { IpfsOld(row, files, a, game_id,
                         IF opts.rom_folder_organization = "multiple" THEN row["rom_category"] ELSE "",
                         info, old, Strip(Get(row, "file_sha1", ""))) :
                 old \in find_game_file(files, game_id, opts.rom_folder_organization) }

\* the body of the loop of get_ipfs_roms_command over rows_to_process
IpfsRecord(row, files, a, opts) ==
    IF get_primary_game_id(row) = "" THEN {Res(row, files, FALSE, "done")}
    ELSE IpfsNamed(row, files, a, opts, get_primary_game_id(row), GenerateWith(row, opts))

-----------------------------------------------------------------------------
(* sync_filenames_command and media_utils.sync_media_for_game               *)

\* one media folder of sync_media_for_game: the file found by the primary id
\* is moved, else the file found by the secondary id is copied
SyncMediaType(files, media_type, by_primary, by_secondary, name) ==
    IF by_primary # NoPath
    THEN (IF by_primary.name # name THEN MoveFile(files, by_primary, "media", media_type, name)
          ELSE files)
    ELSE IF by_secondary # NoPath /\ by_secondary.name # name
    THEN WriteFileAt(files, "media", media_type, name, by_secondary.data)
    ELSE files

\* the files find_media_file may return for the secondary id, None without one
BySecondary(files, media_type, secondary_id) ==
    IF secondary_id.none THEN {NoPath} ELSE find_media_file(files, media_type, secondary_id.id)

\* sync_media_for_game: its four folders are distinct, each is handled alone
SyncMediaIn(files, media_type, game_id, secondary_id, name) ==
    { SyncMediaType(files, media_type, p, s, name) :
        p \in find_media_file(files, media_type, game_id),
        s \in BySecondary(files, media_type, secondary_id) }

sync_media_for_game(files, game_id, secondary_id, name) ==
    UNION { UNION { UNION { SyncMediaIn(f3, "itch-screenshots", game_id, secondary_id, name) :
                            f3 \in SyncMediaIn(f2, "cart-covers", game_id, secondary_id, name) } :
                    f2 \in SyncMediaIn(f1, "titlescreens", game_id, secondary_id, name) } :
            f1 \in SyncMediaIn(files, "screenshots", game_id, secondary_id, name) }

\* lines 36-59: the ROM is moved to the name of the record, then the media
SyncNamed(row, files, game_id, dir, info, old) ==
    IF info.raised THEN {Res(row, files, FALSE, "raised")}
    ELSE { Res(row, f, FALSE, "done") :
           f \in sync_media_for_game(
                    IF SamePath(old, "roms", dir, info.rom_filename) THEN files
                    ELSE MoveFile(files, old, "roms", dir, info.rom_filename),
                    game_id, get_secondary_game_id(row), info.image_filename) }

SyncFound(row, files, opts, game_id, old) ==
    IF old = NoPath THEN {Res(row, files, FALSE, "done")}
    ELSE SyncNamed(row, files, game_id,
                   IF opts.rom_folder_organization = "multiple" THEN get_rom_category(row) ELSE "",
                   GenerateWith(row, opts), old)

\* the body of the loop of sync_filenames_command over db.items()
SyncRecord(row, files, a, opts) ==
    IF Get(row, "file_sha1", "") = "" \/ get_primary_game_id(row) = ""
    THEN {Res(row, files, FALSE, "done")}
    ELSE UNION { SyncFound(row, files, opts, get_primary_game_id(row), old) :
                 old \in find_game_file(files, get_primary_game_id(row),
                                        opts.rom_folder_organization) }

-----------------------------------------------------------------------------
(* The asset specification: update and asset commands run one after the     *)
(* other, each in a process of its own, against the store file and the      *)
(* files left by the one before.  The sites answer each request in one of   *)
(* the ways of RelevantAnswers.                                             *)

MaxAssetRuns == 2     \* commands run one after the other

AssetCommands == {"get_tic_roms", "get_itch_roms", "get_ipfs_roms", "sync_filenames"}

Criteria == {"download-all", "download-curated-collection"}

AssetHeader ==
    <<"name_original_reference", "id", "tic_id", "itch_id", "source_with_bestversion",
      "tic_category", "rom_category", "tic_md5", "file_sha1", "download_url", "itch_page",
      "itch_upd_timestamp", "ipfs_cid", "overwrite_upd_timestamp">>

\* the lines of the store files, cells in the order of AssetHeader
AssetRows ==
    [alpha |-> <<"Alpha", "5", "5", "", "", "Games", "", "h1", "", "u/h1/alpha.tic", "", "", "", "">>,
     tools |-> <<"Kit", "6", "6", "", " TIC80COM ", "Tools", "", "h6", "", "u/h6/kit.tic", "", "", "", "inf">>,
     beta  |-> <<"Beta", "12345", "", "12345", "itch", "", "Itch", "", "", "", "p/beta", "100", "", "">>,
     gamma |-> <<"Gamma", "20000", "", "20000", " Itch", "", "Itch", "", "", "", "p/gamma", "", "", "">>,
     pi    |-> <<"Pi", "AB12", "", "", "ipfs", "", "", "", "", "", "", "", "cid1", "">>,
     delta |-> <<"Delta", "7", "7", "", "", "Games", "", "h7", "sha1:rom1", "u/h7/delta.tic", "", "", "", "">>]

AssetFiles ==
    { CsvFile(AssetHeader, <<AssetRows.alpha, AssetRows.beta>>),
      CsvFile(AssetHeader, <<AssetRows.beta, AssetRows.alpha>>),
      CsvFile(AssetHeader, <<AssetRows.tools, AssetRows.alpha>>),
      CsvFile(AssetHeader, <<AssetRows.gamma, AssetRows.beta>>),
      CsvFile(AssetHeader, <<AssetRows.pi, AssetRows.alpha>>),
      CsvFile(AssetHeader, <<AssetRows.delta, AssetRows.beta>>) }

\* the asset folders the first command may find: nothing yet, the cartridge
\* and a screenshot of Delta under an older name, and the same with a second
\* cartridge file of Delta
OneOldRom ==
    { File("roms", "", "Old - 7 (2020-01-01).tic", "rom1"),
      File("media", "screenshots", "Old - 7.png", "shot") }

AssetDisks == { {}, OneOldRom, OneOldRom \cup {File("roms", "", "Older - 7 ().tic", "rom0")} }

\* the listings the update commands get in this specification
AssetListings(c) ==
    IF c = "update_tic"
    THEN {<<[id |-> "5", tic_md5 |-> "h2", name |-> "alpha", filename |-> "alpha.tic",
             category |-> "Games"],
            [id |-> "6", tic_md5 |-> "h7", name |-> "kit", filename |-> "kit.tic",
             category |-> "Tools"]>>,
          <<[id |-> "5", tic_md5 |-> "h1", name |-> "alpha", filename |-> "alpha.tic",
             category |-> "Games"]>>}
    ELSE IF c = "update_itch"
    THEN {<<ItchGame("12345", "Beta", "200"), ItchGame("20000", "Gamma", "200")>>,
          <<ItchGame("12345", "Beta", "100")>>}
    ELSE {<<>>}

AssetInit ==
    /\ csv_file \in AssetFiles
    /\ _global_db = <<>>
    /\ _global_csv_path = FALSE
    /\ _global_fieldnames = <<>>
    /\ pc = "idle"
    /\ cmd = ""
    /\ load_pos = 0
    /\ listing = <<>>
    /\ lookup = <<>>
    /\ runs = 0
    /\ snapshot = <<>>
    /\ last_saved = NoSave
    /\ HarnessIdle
    /\ disk \in AssetDisks
    /\ dl = NoAssets
    /\ pool = NoPool

\* a new process starts a command.  obtained: the cartridges the runs before
\* fetched with this command, as long as no other command ran in between;
\* repeated: the command before was the same one and it returned
AssetStart ==
    /\ pc \in {"idle", "raised"}
    /\ runs < MaxAssetRuns
    /\ \E c \in Commands \cup AssetCommands, criteria \in Criteria :
          /\ c # "get_tic_roms" => criteria = "download-all"
          /\ cmd' = c
          /\ listing' \in AssetListings(c)
          /\ dl' = [NoAssets EXCEPT !.run = runs + 1, !.criteria = criteria,
                        !.obtained = IF c = cmd /\ pc = "idle"
                                     THEN dl.obtained \cup dl.fetched ELSE {},
                        !.repeated = (c = cmd /\ pc = "idle")]
    /\ runs' = runs + 1
    /\ _global_db' = <<>>
    /\ _global_csv_path' = FALSE
    /\ _global_fieldnames' = <<>>
    /\ load_pos' = 0
    /\ lookup' = <<>>
    /\ snapshot' = <<>>
    /\ pc' = "start"
    /\ UNCHANGED <<csv_file, last_saved, disk, pool>>
    /\ UNCHANGED harnessVars

\* the records the loop of the command will visit, in the order of the store
Selects(c, r, criteria) ==
    CASE c = "get_tic_roms" -> TicSelects(r, criteria)
      [] c = "get_itch_roms" -> ItchSelects(r)
      [] c = "get_ipfs_roms" -> IpfsSelects(r)
      [] OTHER -> TRUE

\* get_tic_roms calls generate_filename_and_gamename for the name it prints of
\* every record it leaves out for its source (lines 55-62)
SelectRaises(c, db, criteria, opts) ==
    /\ c = "get_tic_roms"
    /\ \E i \in 1..Len(db) :
          /\ filter_func(db[i].row, criteria)
          /\ Get(db[i].row, "file_sha1", "") = ""
          /\ TicSkips(db[i].row)
          /\ GenerateWith(db[i].row, opts).raised

\* the list the command builds right after the load
Select ==
    /\ pc = "loaded"
    /\ cmd \in AssetCommands
    /\ IF SelectRaises(cmd, _global_db, dl.criteria, in_opts)
       THEN /\ pc' = "raised"
            /\ UNCHANGED <<listing, dl>>
       ELSE /\ listing' = KeysOf(SelectSeq(_global_db, LAMBDA e : Selects(cmd, e.row, dl.criteria)))
            /\ dl' = [dl EXCEPT !.selected = listing']
            /\ pc' = "merge"
    /\ UNCHANGED <<csv_file, _global_db, _global_csv_path, _global_fieldnames, cmd,
                   load_pos, lookup, runs, snapshot, last_saved, disk, pool>>
    /\ UNCHANGED harnessVars

\* the body of the loop of the command c for one record
RecordResults(c, row, files, a, opts) ==
    CASE c = "get_tic_roms" -> TicRecord(row, files, a, opts)
      [] c = "get_itch_roms" -> ItchRecord(row, files, a, opts)
      [] c = "get_ipfs_roms" -> IpfsRecord(row, files, a, opts)
      [] OTHER -> SyncRecord(row, files, a, opts)

\* the answers the body of the command may get
AnswersFor(c) ==
    IF c = "sync_filenames" THEN {[page |-> TRUE, cart |-> "ok", lastmod |-> TRUE, image |-> TRUE]}
    ELSE RelevantAnswers

\* the record is mutated in place, the files are as the body left them
Handled(key, a, r) ==
    /\ _global_db' = DictSet(_global_db, key, r.row)
    /\ disk' = r.files
    /\ dl' = [dl EXCEPT !.fetched = IF r.fetched THEN @ \cup {<<key, a>>} ELSE @,
                        !.again = IF r.fetched /\ <<key, a>> \in dl.obtained THEN @ \cup {key} ELSE @,
                        !.failed = IF r.status = "failed" THEN @ \cup {key} ELSE @,
                        !.handled = @ \cup {key},
                        !.moves = IF r.files # disk THEN @ + 1 ELSE @,
                        !.last = [key |-> key, before |-> RowOf(_global_db, key),
                                  files |-> disk, answer |-> a, status |-> r.status]]
    /\ pc' = IF r.status = "raised" THEN "raised" ELSE pc

\* one iteration of the loop of an asset command
HandleRecord ==
    /\ pc = "merge"
    /\ cmd \in AssetCommands
    /\ listing # <<>>
    /\ listing' = Tail(listing)
    /\ \E a \in AnswersFor(cmd) :
          \E r \in RecordResults(cmd, RowOf(_global_db, Head(listing)), disk, a, in_opts) :
             Handled(Head(listing), a, r)
    /\ UNCHANGED <<csv_file, _global_csv_path, _global_fieldnames, cmd, load_pos, lookup,
                   runs, snapshot, last_saved, pool>>
    /\ UNCHANGED harnessVars

AssetNext ==
    \/ AssetStart
    \/ LoadBegin
    \/ LoadRow
    \/ LoadEnd
    \/ BuildLookup
    \/ MergeTic
    \/ MergeItch
    \/ Select
    \/ HandleRecord
    \/ Save

AssetSpec == AssetInit /\ [][AssetNext]_vars

-----------------------------------------------------------------------------
(* The worker pool of ai_assistant_command: process_game is submitted once   *)
(* for each game to a ThreadPoolExecutor, the main thread collects the       *)
(* futures with as_completed and counts their results.  pool.task[g] is the  *)
(* position of the call process_game(g, ...), pool.lock the thread inside    *)
(* "with print_lock", pool.count the four counters of the main thread.       *)

PoolGames == <<"5", "6", "7">>     \* games_to_process

MaxWorkers == 2     \* max_workers of the executor (5 in the code)

GameIds == {PoolGames[i] : i \in 1..Len(PoolGames)}

Free == "<free>"

\* threading.Lock().acquire() returns without regard to the holder
LockFree_always(holder) == TRUE

\* threading.Lock().acquire() returns when no thread holds the lock
LockFree(holder) == holder = Free

Queued == [pc |-> "queued", msg |-> "", result |-> ""]

\* the call is at "with print_lock:" before the print of the message msg
AtLock(msg) == [pc |-> "lock", msg |-> msg, result |-> ""]

\* process_game has returned result, or ended with an exception ("raised")
Ended(result) == [pc |-> "done", msg |-> "", result |-> result]

At(pc_) == [pc |-> pc_, msg |-> "", result |-> ""]

\* where process_game goes on after the with block that prints msg
AfterPrint(msg) ==
    CASE msg = "exists" -> Ended("skipped_exist")
      [] msg = "no_source" -> Ended("skipped_no_source")
      [] msg = "read_error" -> Ended("error")
      [] msg = "sending" -> At("call")
      [] msg = "saved" -> Ended("processed")
      [] msg = "invalid_json" -> At("write_txt")
      [] msg = "api_error" -> Ended("error")

NoCounts == [processed |-> 0, skipped_exist |-> 0, skipped_no_source |-> 0, error |-> 0]

\* the branches of the loop over as_completed: an exception of the future is
\* counted as an error
Counted(count, result) ==
    IF result \in {"processed", "skipped_exist", "skipped_no_source"}
    THEN [count EXCEPT ![result] = @ + 1]
    ELSE [count EXCEPT !.error = @ + 1]

\* the calls a worker thread is running
InWorker(task) == {g \in GameIds : task[g].pc \notin {"queued", "done"}}

\* the work queue of the executor is first in, first out
FirstQueued(task) ==
    PoolGames[CHOOSE i \in 1..Len(PoolGames) :
                 /\ task[PoolGames[i]].pc = "queued"
                 /\ \A j \in 1..(i - 1) : task[PoolGames[j]].pc # "queued"]

poolOthers == <<csv_file, _global_db, _global_csv_path, _global_fieldnames, cmd, load_pos,
                listing, lookup, runs, snapshot, last_saved, disk, dl>>

\* every game is submitted before the first future is collected
PoolInit ==
    /\ StoreIdle
    /\ HarnessIdle
    /\ disk = {}
    /\ dl = NoAssets
    /\ pc = "collecting"
    /\ \E force \in BOOLEAN :
          pool = [started |-> TRUE, force |-> force, task |-> [g \in GameIds |-> Queued],
                  lock |-> Free, count |-> NoCounts, yielded |-> {}]

\* a worker thread that is idle, or can still be created, takes the next call
WorkerStart ==
    /\ \E g \in GameIds : pool.task[g].pc = "queued"
    /\ Cardinality(InWorker(pool.task)) < MaxWorkers
    /\ pool' = [pool EXCEPT !.task[FirstQueued(pool.task)] = At("check_output")]
    /\ UNCHANGED <<pc, poolOthers>>
    /\ UNCHANGED harnessVars

\* "if not args.force and output_file.exists()"
CheckOutput ==
    /\ \E g \in GameIds, exists \in BOOLEAN :
          /\ pool.task[g].pc = "check_output"
          /\ pool' = [pool EXCEPT !.task[g] = IF ~pool.force /\ exists THEN AtLock("exists")
                                              ELSE At("check_source")]
    /\ UNCHANGED <<pc, poolOthers>>
    /\ UNCHANGED harnessVars

\* "if not source_file.exists()"
CheckSource ==
    /\ \E g \in GameIds, exists \in BOOLEAN :
          /\ pool.task[g].pc = "check_source"
          /\ pool' = [pool EXCEPT !.task[g] = IF exists THEN At("read") ELSE AtLock("no_source")]
    /\ UNCHANGED <<pc, poolOthers>>
    /\ UNCHANGED harnessVars

\* the source file is read, under "except Exception"; then the second try
\* block begins with the print of "Sending request"
ReadSource ==
    /\ \E g \in GameIds, readable \in BOOLEAN :
          /\ pool.task[g].pc = "read"
          /\ pool' = [pool EXCEPT !.task[g] = IF readable THEN AtLock("sending")
                                              ELSE AtLock("read_error")]
    /\ UNCHANGED <<pc, poolOthers>>
    /\ UNCHANGED harnessVars

\* print_lock.__enter__(): the thread waits until the lock is free
Acquire ==
    /\ \E g \in GameIds :
          /\ pool.task[g].pc = "lock"
          /\ LockFree(pool.lock)
          /\ pool' = [pool EXCEPT !.task[g].pc = "print", !.lock = g]
    /\ UNCHANGED <<pc, poolOthers>>
    /\ UNCHANGED harnessVars

\* print(...) and print_lock.__exit__()
PrintRelease ==
    /\ \E g \in GameIds :
          /\ pool.task[g].pc = "print"
          /\ pool' = [pool EXCEPT !.task[g] = AfterPrint(pool.task[g].msg), !.lock = Free]
    /\ UNCHANGED <<pc, poolOthers>>
    /\ UNCHANGED harnessVars

\* openai.chat.completions.create(...) and json.loads(ai_response): the
\* service fails, answers with text that is no JSON, or answers with JSON
CallService ==
    /\ \E g \in GameIds, answer \in {"error", "text", "json"} :
          /\ pool.task[g].pc = "call"
          /\ pool' = [pool EXCEPT !.task[g] =
                         CASE answer = "error" -> AtLock("api_error")
                           [] answer = "text" -> AtLock("invalid_json")
                           [] answer = "json" -> At("write")]
    /\ UNCHANGED <<pc, poolOthers>>
    /\ UNCHANGED harnessVars

\* json.dump into the output file, inside the try block
WriteOutput ==
    /\ \E g \in GameIds, written \in BOOLEAN :
          /\ pool.task[g].pc = "write"
          /\ pool' = [pool EXCEPT !.task[g] = IF written THEN AtLock("saved")
                                              ELSE AtLock("api_error")]
    /\ UNCHANGED <<pc, poolOthers>>
    /\ UNCHANGED harnessVars

\* the raw response is written to the .txt file inside the handler of
\* JSONDecodeError: an OSError of this write leaves process_game
WriteRaw ==
    /\ \E g \in GameIds, written \in BOOLEAN :
          /\ pool.task[g].pc = "write_txt"
          /\ pool' = [pool EXCEPT !.task[g] = IF written THEN Ended("error")
                                              ELSE Ended("raised")]
    /\ UNCHANGED <<pc, poolOthers>>
    /\ UNCHANGED harnessVars

\* one iteration of "for i, future in enumerate(as_completed(future_to_game))"
Collect ==
    /\ pc = "collecting"
    /\ \E g \in GameIds \ pool.yielded :
          /\ pool.task[g].pc = "done"
          /\ pool' = [pool EXCEPT !.yielded = @ \cup {g},
                                  !.count = Counted(@, pool.task[g].result)]
    /\ UNCHANGED <<pc, poolOthers>>
    /\ UNCHANGED harnessVars

\* as_completed is exhausted, the executor is shut down, the summary is printed
Summary ==
    /\ pc = "collecting"
    /\ pool.yielded = GameIds
    /\ pc' = "summary"
    /\ UNCHANGED <<pool, poolOthers>>
    /\ UNCHANGED harnessVars

PoolNext ==
    \/ WorkerStart
    \/ CheckOutput
    \/ CheckSource
    \/ ReadSource
    \/ Acquire
    \/ PrintRelease
    \/ CallService
    \/ WriteOutput
    \/ WriteRaw
    \/ Collect
    \/ Summary

\* the threads are scheduled by the operating system: a thread that can take
\* a step is not held back for ever, and each call to the file system and to
\* the service returns or raises
PoolSpec == PoolInit /\ [][PoolNext]_vars /\ WF_vars(PoolNext)

-----------------------------------------------------------------------------
(* The classification specification: the three places that read             *)
(* source_with_bestversion, get_primary_game_id, get_rom_category and the   *)
(* date selection of generate_filename_and_gamename, are each called on a   *)
(* record drawn from ClassRows.                                             *)

ClassRows ==
    { RowFrom([source_with_bestversion |-> s, tic_id |-> "5", itch_id |-> "12345",
               id |-> "AB12", tic_category |-> t, tic_upd_date |-> tu,
               itch_upd_timestamp |-> u]) :
        s \in ResolveSources, t \in {Absent, "Tools"}, tu \in {"", "2022-01-01"},
        u \in {"", "200000"} }

ClassInit ==
    /\ StoreIdle
    /\ AssetIdle
    /\ pc = "ready"
    /\ in_row \in ClassRows
    /\ in_opts = DefaultOpts
    /\ local_tz = 0
    /\ out = NoCall
    /\ prev_call = NoCall

\* the call get_primary_game_id(in_row)
ClassifyId ==
    /\ pc = "ready"
    /\ out' = [called |-> TRUE, row |-> in_row, fn |-> "id", result |-> get_primary_game_id(in_row)]
    /\ pc' = "done"
    /\ UNCHANGED <<in_row, in_opts, local_tz, prev_call>>
    /\ UNCHANGED <<storeVars, assetVars>>

\* the call get_rom_category(in_row)
ClassifyCategory ==
    /\ pc = "ready"
    /\ out' = [called |-> TRUE, row |-> in_row, fn |-> "category", result |-> get_rom_category(in_row)]
    /\ pc' = "done"
    /\ UNCHANGED <<in_row, in_opts, local_tz, prev_call>>
    /\ UNCHANGED <<storeVars, assetVars>>

\* the date selection of generate_filename_and_gamename(in_row, ...)
ClassifyDate ==
    /\ pc = "ready"
    /\ out' = [called |-> TRUE, row |-> in_row, fn |-> "date", result |-> update_date(in_row)]
    /\ pc' = "done"
    /\ UNCHANGED <<in_row, in_opts, local_tz, prev_call>>
    /\ UNCHANGED <<storeVars, assetVars>>

ClassNext ==
    \/ ClassifyId
    \/ ClassifyCategory
    \/ ClassifyDate

ClassSpec == ClassInit /\ [][ClassNext]_vars

-----------------------------------------------------------------------------
(* Properties of the resolver (ResolveSpec).                                *)

\* the first non-empty element of q, "" when there is none
RECURSIVE FirstNonEmpty(_)
FirstNonEmpty(q) ==
    IF q = <<>> THEN "" ELSE IF Head(q) # "" THEN Head(q) ELSE FirstNonEmpty(Tail(q))

\* the source field of a record, trimmed and lower-cased
TrimmedSource(row) == Lower(Strip(Get(row, "source_with_bestversion", "")))

\* the identifier that the source of the record prefers
PreferredOf(row) ==
    IF TrimmedSource(row) \in {"", "tic80com"} THEN Get(row, "tic_id", "")
    ELSE IF TrimmedSource(row) = "itch" THEN Get(row, "itch_id", "")
    ELSE Get(row, "id", "")

\* C1: get_primary_game_id reads the source trimmed and without case; it
\* returns tic_id when the source is empty or tic80com and tic_id is not
\* empty, itch_id when the source is itch and itch_id is not empty, id for any
\* other source when id is not empty, and the first non-empty of tic_id,
\* itch_id, id when the preferred one is empty; the result is empty exactly
\* when the three identifiers are empty.
C1_PrimarySelection ==
    pc = "done" =>
        /\ (PreferredOf(out.row) # "" => out.result = PreferredOf(out.row))
        /\ (PreferredOf(out.row) = "" =>
                out.result = FirstNonEmpty(<<Get(out.row, "tic_id", ""),
                                             Get(out.row, "itch_id", ""),
                                             Get(out.row, "id", "")>>))
        /\ (out.result = "" <=>
                /\ Get(out.row, "tic_id", "") = ""
                /\ Get(out.row, "itch_id", "") = ""
                /\ Get(out.row, "id", "") = "")

\* C1 witness: a source written "Itch" with a trailing tab selects itch_id
\* although tic_id and id are not empty
C1_Witness ==
    /\ pc = "done"
    /\ Get(out.row, "source_with_bestversion", "") = "Itch\t"
    /\ Get(out.row, "tic_id", "") = "5"
    /\ Get(out.row, "id", "") = "AB12"
    /\ out.result = "12345"

\* C21: get_secondary_game_id returns itch_id when the primary id equals
\* tic_id and itch_id is not empty and differs from tic_id; tic_id when the
\* primary id equals itch_id and tic_id is not empty and differs from itch_id;
\* None in every other case.  What it returns is never empty and never the
\* primary id.
C21_Secondary ==
    (pc = "done" /\ "secondary" \in DOMAIN out) =>
        /\ out.secondary =
              IF /\ "tic_id" \in DOMAIN out.row /\ out.result = out.row["tic_id"]
                 /\ Get(out.row, "itch_id", "") # ""
                 /\ Get(out.row, "itch_id", "") # out.row["tic_id"]
              THEN Some(out.row["itch_id"])
              ELSE IF /\ "itch_id" \in DOMAIN out.row /\ out.result = out.row["itch_id"]
                      /\ Get(out.row, "tic_id", "") # ""
                      /\ Get(out.row, "tic_id", "") # out.row["itch_id"]
              THEN Some(out.row["tic_id"])
              ELSE None
        /\ ~out.secondary.none => out.secondary.id # "" /\ out.secondary.id # out.result

\* the source itch makes itch_id the primary id and tic_id the secondary one
C21_Witness ==
    /\ pc = "done"
    /\ "secondary" \in DOMAIN out
    /\ Get(out.row, "source_with_bestversion", "") = "itch"
    /\ out.result = "12345"
    /\ out.secondary = Some("5")

-----------------------------------------------------------------------------
(* Properties of the store (StoreSpec).                                     *)

\* the columns that name a record and its source; no update of a record that
\* the lookup found changes them
IdentityColumns == {"id", "tic_id", "itch_id", "source_with_bestversion"}

\* the record r is the record s as far as the identity columns go
SameRecord(r, s) == \A c \in IdentityColumns : Get(r, c, "") = Get(s, c, "")

\* C2: every record the load of a run returned is still in the store, under
\* its key and as the same record, at every later point of the run; a new
\* upstream identifier never overwrites a record stored under the same key.
C2_RecordsKept ==
    \A i \in 1..Len(snapshot) :
        /\ snapshot[i].key \in Keys(_global_db)
        /\ SameRecord(RowOf(_global_db, snapshot[i].key), snapshot[i].row)

\* the (identity, field map) pairs of a store
Pairs(db) == {<<db[i].key, db[i].row>> : i \in 1..Len(db)}

\* C4: when a store returned by load was saved as it was and the saved file
\* is loaded again, the store holds exactly the (identity, field map) pairs of
\* the store that was saved.
C4_RoundTrip ==
    (pc = "loaded" /\ last_saved.saved /\ last_saved.loaded) =>
        Pairs(_global_db) = Pairs(last_saved.db)

\* C4 witness: a store of two records was loaded, saved and loaded again, and
\* the file was written in another row order than the store was loaded in
C4_Witness ==
    /\ pc = "loaded"
    /\ last_saved.saved
    /\ last_saved.loaded
    /\ Len(last_saved.db) = 2
    /\ _global_db # last_saved.db
    /\ Pairs(_global_db) = Pairs(last_saved.db)

\* the record load makes of line j of the file
LoadedRowAt(j) == NormalizeRow(ReadRow(csv_file.header, csv_file.rows[j]))

\* the three identifier columns of a record are empty
NoIdentifier(row) == row["id"] = "" /\ row["tic_id"] = "" /\ row["itch_id"] = ""

\* C5: after load every key is a non-empty string, the primary id of its
\* record, whose identifier columns are normalized; a line whose three
\* identifiers are empty once normalized is not in the store, and the lines
\* that follow it are loaded.
C5_KeysAreIdentities ==
    pc = "loaded" =>
        /\ \A i \in 1..Len(_global_db) :
              /\ _global_db[i].key # ""
              /\ _global_db[i].key = get_primary_game_id(_global_db[i].row)
              /\ \E j \in 1..Len(csv_file.rows) : _global_db[i].row = LoadedRowAt(j)
        /\ \A j \in 1..Len(csv_file.rows) :
              IF NoIdentifier(LoadedRowAt(j))
              THEN \A i \in 1..Len(_global_db) : _global_db[i].row # LoadedRowAt(j)
              ELSE get_primary_game_id(LoadedRowAt(j)) \in Keys(_global_db)

\* C5 witness: the first line of the file has no identifier, the second has
\* one and is in the store
C5_Witness ==
    /\ pc = "loaded"
    /\ Len(csv_file.rows) = 2
    /\ NoIdentifier(LoadedRowAt(1))
    /\ ~NoIdentifier(LoadedRowAt(2))
    /\ Len(_global_db) = 1
    /\ _global_db[1].row = LoadedRowAt(2)

\* the lines of the file whose record has the primary id k
LinesOf(k) == {j \in 1..Len(csv_file.rows) : get_primary_game_id(LoadedRowAt(j)) = k}

\* the greatest element of a non-empty set of numbers
Last(S) == CHOOSE j \in S : \A i \in S : i <= j

\* C6: after load the store holds one record for each primary id, and its
\* field values are those of the last line of the file with that id.
C6_LastRowWins ==
    pc = "loaded" =>
        /\ \A i, j \in 1..Len(_global_db) : _global_db[i].key = _global_db[j].key => i = j
        /\ \A i \in 1..Len(_global_db) :
              /\ LinesOf(_global_db[i].key) # {}
              /\ _global_db[i].row = LoadedRowAt(Last(LinesOf(_global_db[i].key)))

\* C6 witness: two lines with different field values have the same primary
\* id, and the store holds the record of the second
C6_Witness ==
    /\ pc = "loaded"
    /\ Len(csv_file.rows) = 2
    /\ LoadedRowAt(1) # LoadedRowAt(2)
    /\ get_primary_game_id(LoadedRowAt(1)) = get_primary_game_id(LoadedRowAt(2))
    /\ Len(_global_db) = 1
    /\ _global_db[1].row = LoadedRowAt(2)

-----------------------------------------------------------------------------
(* Properties of the generator (GenSpec).                                   *)

\* two records differ at most in the description field
SameButDescription(r, s) ==
    /\ DOMAIN r = DOMAIN s
    /\ \A c \in DOMAIN r \ {"tic_description"} : r[c] = s[c]

\* C3: two calls with the same field values and the same options return the
\* same names, and two calls on records that differ only in a description
\* return the same rom_filename.
C3_Deterministic ==
    (out.called /\ prev_call.called /\ out.opts = prev_call.opts) =>
        /\ (out.row = prev_call.row => out.info = prev_call.info)
        /\ (SameButDescription(out.row, prev_call.row) =>
                out.info.rom_filename = prev_call.info.rom_filename)

\* the date, in the zone at tz seconds east of UTC, of the instant ts
DateIn(ts, tz) == FormatDate(CivilFromDays(LocalDayIn(ts, tz)))

\* the text of a timestamp field, "" when the record lacks it
Field(row, name) == Get(row, name, "")

\* the field holds text that float() turns into a finite number
ParsesFinite(row, name) == Field(row, name) # "" /\ ParseFloat(Field(row, name)).kind = "fin"

\* the field is missing, empty or not a number
Unparsed(row, name) == Field(row, name) = "" \/ ParseFloat(Field(row, name)).kind = "err"

\* the date of the tic80.com fields: tic_upd_date when not empty, else tic_pub_date
TicDateOf(row) ==
    IF Field(row, "tic_upd_date") # "" THEN Field(row, "tic_upd_date")
    ELSE Field(row, "tic_pub_date")

\* each itch timestamp field is a finite number or unparsed
ItchFieldsPlain(row) ==
    \A name \in {"itch_upd_timestamp", "itch_lastmodified_timestamp", "itch_pub_timestamp"} :
        ParsesFinite(row, name) \/ Unparsed(row, name)

\* C7: whenever overwrite_upd_timestamp holds a number, 0 included, the date
\* of the record is the date of that instant, whatever the source and the
\* other date and timestamp fields are.
C7_OverwriteWins ==
    (out.called /\ ParsesFinite(out.row, "overwrite_upd_timestamp")) =>
        /\ ~out.info.raised
        /\ out.info.update_date =
               DateIn(ParseFloat(Field(out.row, "overwrite_upd_timestamp")), out.tz)

\* C8: without a usable overwrite timestamp, and with a source field that is
\* missing, empty or tic80com, the date is tic_upd_date when not empty, else
\* tic_pub_date, whatever the itch timestamps hold (stated for records with
\* one of the two dates, and itch timestamps that are finite or unparsed).
C8_TicDatesForTicSource ==
    (/\ out.called
     /\ Unparsed(out.row, "overwrite_upd_timestamp")
     /\ Field(out.row, "source_with_bestversion") \in {"", "tic80com"}
     /\ TicDateOf(out.row) # ""
     /\ ItchFieldsPlain(out.row)) =>
        /\ ~out.info.raised
        /\ out.info.update_date = TicDateOf(out.row)

\* the instant the itch rule selects among fields that are either finite
\* numbers or unparsed: the earlier of upd and lastmodified when both parse,
\* the one that parses, else pub; kind "err" when none parses
ItchInstantOf(row) ==
    IF ParsesFinite(row, "itch_upd_timestamp") /\ ParsesFinite(row, "itch_lastmodified_timestamp")
    THEN (IF FloatLess(ParseFloat(Field(row, "itch_lastmodified_timestamp")),
                       ParseFloat(Field(row, "itch_upd_timestamp")))
          THEN ParseFloat(Field(row, "itch_lastmodified_timestamp"))
          ELSE ParseFloat(Field(row, "itch_upd_timestamp")))
    ELSE IF ParsesFinite(row, "itch_upd_timestamp")
    THEN ParseFloat(Field(row, "itch_upd_timestamp"))
    ELSE IF ParsesFinite(row, "itch_lastmodified_timestamp")
    THEN ParseFloat(Field(row, "itch_lastmodified_timestamp"))
    ELSE IF ParsesFinite(row, "itch_pub_timestamp")
    THEN ParseFloat(Field(row, "itch_pub_timestamp"))
    ELSE FloatErr

\* C9: without a usable overwrite timestamp and with an itch or custom source,
\* the date is that of the earlier of itch_upd_timestamp and
\* itch_lastmodified_timestamp when both parse, of the one that parses, else
\* of itch_pub_timestamp when it parses, else the tic80.com date.
C9_ItchRule ==
    (/\ out.called
     /\ Unparsed(out.row, "overwrite_upd_timestamp")
     /\ Field(out.row, "source_with_bestversion") \notin {"", "tic80com"}
     /\ ItchFieldsPlain(out.row)) =>
        /\ ~out.info.raised
        /\ out.info.update_date =
               IF ItchInstantOf(out.row).kind = "fin" THEN DateIn(ItchInstantOf(out.row), out.tz)
               ELSE TicDateOf(out.row)

\* C10: the generator returns a result whatever the timestamp fields hold.
C10_NeverRaises == out.called => ~out.info.raised

-----------------------------------------------------------------------------
(* Properties of signal_handler and of the writes of a save (InterruptSpec). *)

\* C11: a SIGINT / SIGTERM at any point of a command, the positions inside
\* "with _global_db_lock" of load and of save included, never blocks on the
\* lock; with a path set and a non-empty store the file then holds the save of
\* the store as it is in memory at that moment, otherwise the file is left as
\* it was; and the process ends with exit status 0.
C11_SignalSavesAndExits ==
    [][/\ pc' # "deadlock"
       /\ (pc' = "exit0" /\ pc # "exit0") =>
              IF _global_csv_path /\ _global_db # <<>>
              THEN csv_file' = save_csv_database(_global_db, _global_fieldnames)
              ELSE csv_file' = csv_file]_vars

\* the signal arrived inside a save of a store that the command had changed
C11_Witness ==
    /\ pc = "exit0"
    /\ last_saved.saving
    /\ _global_db # <<>>
    /\ _global_db # snapshot
    /\ csv_file = save_csv_database(_global_db, _global_fieldnames)
    /\ csv_file # last_saved.before

\* C12: during a save, and after a save cut short by a kill or by a signal,
\* the file holds either what it held before the save or the complete new
\* contents.
C12_AtomicSave ==
    (last_saved.saving /\ pc \in Saving \cup {"killed", "exit0"}) =>
        csv_file \in {last_saved.before, save_csv_database(last_saved.db, _global_fieldnames)}

-----------------------------------------------------------------------------
(* Properties of the file a save writes (SaveSpec).                         *)

\* the record of line i of the file, as a reader of the file sees it
WrittenRecord(i) == ReadRow(csv_file.header, csv_file.rows[i])

\* primary_display_key: the first non-empty of the four names, lower-cased and
\* trimmed
DisplayKey(r) ==
    Strip(Lower(FirstNonEmpty(<<Field(r, "sortname"), Field(r, "name_overwrite"), Field(r, "name_original_reference"), Field(r, "itch_titlename")>>)))

\* the canonical identity of the record, left-padded with zeros to 10 characters
PaddedIdentity(r) == RJustZero(get_primary_game_id(r), 10)

\* the pair (display key, identity) of r is not greater than that of s
PairNotGreater(r, s) ==
    \/ StrLess(DisplayKey(r), DisplayKey(s))
    \/ DisplayKey(r) = DisplayKey(s) /\ ~StrLess(PaddedIdentity(s), PaddedIdentity(r))

\* a save of the command has completed and the process has not been replaced
JustSaved == pc = "idle" /\ last_saved.saved

\* C13: the lines of a saved file are in ascending order of the pair
\* (primary_display_key, identity padded to 10 characters); records with the
\* same display key are in the order of their canonical identities.
C13_SortedByPair ==
    JustSaved =>
        \A i, j \in 1..Len(csv_file.rows) :
            i < j => PairNotGreater(WrittenRecord(i), WrittenRecord(j))

\* the sequences that hold the elements of q in some order
OrdersOf(q) ==
    { [i \in 1..Len(q) |-> q[f[i]]] :
        f \in {g \in [1..Len(q) -> 1..Len(q)] : \A a, b \in 1..Len(q) : g[a] = g[b] => a = b} }

\* C14: the file a save writes is the same for every in-memory order of the
\* records of the store.
C14_OrderIndependent ==
    JustSaved =>
        \A other \in OrdersOf(last_saved.db) :
            save_csv_database(other, _global_fieldnames) = csv_file

\* the columns present in the records of the store
ColumnsOf(db) == UNION {DOMAIN db[i].row : i \in 1..Len(db)}

\* position of the first occurrence of column c in order
FirstAt(order, c) == CHOOSE i \in 1..Len(order) : order[i] = c /\ \A j \in 1..(i - 1) : order[j] # c

\* h lists the columns present once each: those of order first, in the order of
\* their first occurrences in it, then the others in alphabetical order
HeaderFollows(h, order, present) ==
    /\ Range(h) = present
    /\ \A i, j \in 1..Len(h) : i < j =>
          /\ h[i] # h[j]
          /\ h[j] \in Range(order) => h[i] \in Range(order) /\ FirstAt(order, h[i]) < FirstAt(order, h[j])
          /\ (h[i] \notin Range(order) /\ h[j] \notin Range(order)) => StrLess(h[i], h[j])

-----------------------------------------------------------------------------
(* Properties of the category and of the generated names (NamingSpec).      *)

\* the effective category as the specification defines it
EffectiveCategory(row) ==
    IF Field(row, "rom_category") # "" THEN Field(row, "rom_category")
    ELSE IF Field(row, "source_with_bestversion") = "itch" THEN "Itch"
    ELSE IF Field(row, "source_with_bestversion") \in {"tic80com", ""}
         THEN (IF Field(row, "tic_category") # "" THEN Field(row, "tic_category") ELSE "Games")
    ELSE "Unclassified"

\* C16: the category of a record is its rom_category when that is not empty;
\* else Itch for the source itch; else, for the source tic80com or an empty
\* source, its tic_category, and Games when that is empty or missing; else
\* Unclassified.
C16_EffectiveCategory ==
    (out.called /\ "category" \in DOMAIN out) => out.category = EffectiveCategory(out.row)

\* a call of generate_filename_and_gamename has returned
Returned(call) == call.called /\ "info" \in DOMAIN call /\ ~call.info.raised

\* the name the filename is built from, and the display name
NameFor(row, use_custom) ==
    IF use_custom /\ Strip(Field(row, "name_overwrite")) # ""
    THEN Strip(Field(row, "name_overwrite"))
    ELSE FirstNonEmpty(<<Field(row, "name_original_reference"), Field(row, "itch_titlename")>>)

\* the category in the singular
Singular(category) ==
    IF category = "Tools" THEN "Tool"
    ELSE IF category = "Demoscene" THEN "Demoscene"
    ELSE IF EndsWith(category, "s") THEN SubSeq(category, 1, Len(category) - 1)
    ELSE category

\* the suffix the specification prescribes for a record and the options
SuffixFor(row, opts) ==
    IF opts.rom_folder_organization = "single" /\ opts.filename_category_parenthesis /\ EffectiveCategory(row) # "Games"
    THEN " (" \o Singular(EffectiveCategory(row)) \o ")"
    ELSE ""

\* the sanitized plain base name, read off the image filename
PlainBase(call) ==
    SubSeq(call.info.image_filename, 1,
           Len(call.info.image_filename) - Len(" - " \o get_primary_game_id(call.row) \o ".png"))

\* C17: the pre-filename is the filename base followed by the category suffix
\* (present exactly when the organization is single, the parenthesis option is
\* on and the effective category is not Games; (Tool) for Tools, (Demoscene)
\* for Demoscene, else the category without a final s), in the requested case
\* and sanitized; the display name and the image name carry no suffix.
C17_CategorySuffix ==
    Returned(out) =>
        /\ out.info.pre_filename =
              create_safe_filename(ApplyCase(NameFor(out.row, out.opts.use_custom_filenames) \o SuffixFor(out.row, out.opts), out.opts.filename_case))
        /\ out.info.gamename = create_safe_filename(NameFor(out.row, out.opts.use_custom_gamenames))
        /\ PlainBase(out) = create_safe_filename(ApplyCase(NameFor(out.row, out.opts.use_custom_filenames), out.opts.filename_case))

\* s has no forbidden character, no whitespace but single spaces between
\* other characters
Clean(s) ==
    \A i \in 1..Len(s) :
        /\ Char(s, i) \notin FORBIDDEN_CHARS
        /\ Char(s, i) \in Whitespace =>
              /\ Char(s, i) = " "
              /\ 1 < i /\ i < Len(s)
              /\ Char(s, i + 1) \notin Whitespace

\* C18: the plain base name, the pre-filename and the display name that
\* generate returns hold no forbidden character, no whitespace other than
\* single spaces between words, none at either end, and sanitizing them again
\* returns them as they are.
C18_Sanitized ==
    Returned(out) =>
        \A s \in {PlainBase(out), out.info.pre_filename, out.info.gamename} :
            Clean(s) /\ create_safe_filename(s) = s

\* the call was made on a name with a forbidden character, a run of whitespace
\* and whitespace at both ends, and a category with a forbidden character
C18_Witness ==
    /\ Returned(out)
    /\ Field(out.row, "name_original_reference") = " a  b\t?"
    /\ Field(out.row, "rom_category") = "A/B s"
    /\ out.opts.use_custom_filenames = FALSE
    /\ out.info.pre_filename = "a b (AB )"
    /\ out.info.gamename = "a b"

\* the fields and options that the image filename must not depend on
DateAndCategoryFields ==
    {"overwrite_pub_timestamp", "overwrite_upd_timestamp", "tic_pub_timestamp", "tic_upd_timestamp", "itch_pub_timestamp", "itch_upd_timestamp", "itch_lastmodified_timestamp", "tic_pub_date", "tic_upd_date", "itch_pub_date", "itch_upd_date", "itch_lastmodified_date", "rom_category", "tic_category"}

\* the two calls differ at most in those fields, in the parenthesis flag and
\* in the folder organization
SameButDatesAndCategory(a, b) ==
    /\ \A c \in (DOMAIN a.row \cup DOMAIN b.row) \ DateAndCategoryFields :
          c \in DOMAIN a.row /\ c \in DOMAIN b.row /\ a.row[c] = b.row[c]
    /\ a.opts.use_custom_filenames = b.opts.use_custom_filenames
    /\ a.opts.use_custom_gamenames = b.opts.use_custom_gamenames
    /\ a.opts.filename_case = b.opts.filename_case

\* C19: image_filename is the sanitized plain base name, " - ", the identity
\* and ".png"; rom_filename is the sanitized pre-filename, " - ", the identity,
\* " (", the date and ").tic"; and two calls that differ only in date fields,
\* category fields, the parenthesis flag or the folder organization return the
\* same image_filename.
C19_Composition ==
    Returned(out) =>
        /\ out.info.image_filename =
              create_safe_filename(ApplyCase(NameFor(out.row, out.opts.use_custom_filenames), out.opts.filename_case))
                  \o " - " \o get_primary_game_id(out.row) \o ".png"
        /\ out.info.rom_filename =
              out.info.pre_filename \o " - " \o get_primary_game_id(out.row)
                  \o " (" \o update_date(out.row).date \o ").tic"
        /\ (Returned(prev_call) /\ SameButDatesAndCategory(prev_call, out)) =>
              out.info.image_filename = prev_call.info.image_filename

\* the second call was made after a category edit that changed the rom
\* filename and left the image filename alone
C19_Witness ==
    /\ Returned(out)
    /\ Returned(prev_call)
    /\ out.row # prev_call.row
    /\ SameButDatesAndCategory(prev_call, out)
    /\ out.info.rom_filename # prev_call.info.rom_filename
    /\ out.info.image_filename = prev_call.info.image_filename

-----------------------------------------------------------------------------
(* Properties of normalize_id (NormalizeSpec).                              *)

\* the text is numeric: float() accepts it, blanks around it aside
Numeric(x) == Strip(x) # "" /\ ParseFloat(Strip(x)).kind # "err"

\* the text holds a decimal point
HasPoint(x) == \E i \in 1..Len(x) : Char(x, i) = "."

\* C20: normalize_id never raises; a numeric identifier comes back without a
\* decimal point, a non-numeric one and the empty one come back untouched; and
\* normalizing the result again returns it unchanged.
C20_NormalizeTotalIdempotent ==
    (out.called /\ "arg" \in DOMAIN out) =>
        /\ ~out.raised
        /\ Numeric(out.arg) => ~HasPoint(out.result)
        /\ ~Numeric(out.arg) => out.result = out.arg
        /\ prev_call.called => out.result = prev_call.result

-----------------------------------------------------------------------------
(* Properties of update-from-itch.io on timestamps (StoreSpec).             *)

\* C23: an update timestamp that is empty or does not parse, stored in the
\* record or newly scraped for it, is compared as 0 and is no error:
\* update_itch_csv_command never stops on an entry of the listing, it goes on
\* to the remaining entries and saves.  (The lookup is non-empty only once the
\* load has returned, so the position "raised" is that of the merge.)
C23_TimestampNoError ==
    (cmd = "update_itch" /\ lookup # <<>>) => pc # "raised"

-----------------------------------------------------------------------------
(* Properties of the asset commands (AssetSpec).                            *)

DownloadCommands == {"get_tic_roms", "get_itch_roms", "get_ipfs_roms"}

\* a request of the last loop body failed, or a folder or file could not be made
IoFailed(a) == ~a.page \/ a.cart # "ok"

HashFields == {"file_md5", "file_sha1", "file_CRC", "itch_lastmodified_date", "itch_lastmodified_timestamp"}

\* C22: a file-system or network failure while the asset of one record is
\* handled by a download command is isolated to that record: no exception
\* leaves the command (so the later records are handled and the store is
\* saved), and the hash and last-modified fields of the record are as before.
\* A record whose name cannot be generated is left aside here (C10).
C22_FailureIsolated ==
    (/\ cmd \in DownloadCommands
     /\ dl.last.key # ""
     /\ IoFailed(dl.last.answer)
     /\ ~GenerateWith(dl.last.before, in_opts).raised)
    => /\ dl.last.status # "raised"
       /\ pc # "raised"
       /\ \A f \in HashFields :
             Get(RowOf(_global_db, dl.last.key), f, Absent) = Get(dl.last.before, f, Absent)

\* C29: once a run of a download command has fetched the cartridge of a
\* record, the next run of the same command on the store that run saved, with
\* the sites answering for the record as they did before, does not fetch the
\* cartridge again.
C29_Converges == dl.again = {}

\* the record of the store db that the key names, an empty record when there is none
Known(db, key) == IF \E i \in 1..Len(db) : db[i].key = key THEN RowOf(db, key) ELSE <<>>

SourceClass(row) == Lower(Strip(Get(row, "source_with_bestversion", "")))

\* an iteration of an update command on an entry that the lookup knows
MergesKnown(c, id) ==
    /\ cmd = c
    /\ pc = "merge"
    /\ listing # <<>>
    /\ listing' = Tail(listing)
    /\ id \in DOMAIN lookup

Same(old, new, fields) == \A f \in fields : Get(new, f, Absent) = Get(old, f, Absent)

Emptied(new, fields) == \A f \in fields : Get(new, f, Absent) = ""

\* the command c builds its list
Selecting(c) == cmd = c /\ pc = "loaded" /\ pc' # "loaded"

ItchStale == {"itch_lastmodified_date", "itch_lastmodified_timestamp"}

\* the timestamp as a number, 0 when it is absent or unreadable
Stamp(text) == TruncOrZero(ParseFloat(text))

ItchCleared(game_data, old, new) ==
    IF Stamp(Get(old, "itch_upd_timestamp", "0")) < Stamp(game_data.itch_upd_timestamp)
    THEN Emptied(new, ItchStale)
    ELSE Same(old, new, ItchStale)

\* C25: update-from-itch.io clears the two lastmodified fields of an existing
\* record exactly when the scraped update timestamp is greater than the one
\* stored before the merge (absent counting as 0) and keeps both otherwise;
\* and a record of source itch whose lastmodified date is cleared (present and
\* empty: the store does not tell a cleared date from one never set) is in the
\* list of the next get-roms-from-itch.io run.
C25_ItchStaleness ==
    [][/\ MergesKnown("update_itch", Head(listing).itch_id)
          => ItchCleared(Head(listing),
                         Known(_global_db, lookup[Head(listing).itch_id]),
                         Known(_global_db', lookup[Head(listing).itch_id]))
       /\ Selecting("get_itch_roms")
          => \A i \in 1..Len(_global_db) :
                (/\ SourceClass(_global_db[i].row) = "itch"
                 /\ Get(_global_db[i].row, "itch_lastmodified_date", Absent) = "")
                => \E j \in 1..Len(listing') : listing'[j] = _global_db[i].key]_vars

TicStale == {"file_md5", "file_sha1", "file_CRC", "tic_upd_timestamp", "tic_upd_date"}

TicCleared(api_game, old, new) ==
    IF SourceClass(old) \in {"", "tic80com"}
    THEN IF Get(old, "tic_md5", Absent) # api_game.tic_md5
         THEN Emptied(new, TicStale) /\ Get(new, "tic_md5", Absent) = api_game.tic_md5
         ELSE Same(old, new, TicStale \cup {"tic_md5"})
    ELSE new = old

\* C28: update-from-tic80.com clears the file hashes and the tic update date
\* and timestamp of an existing record, and stores the upstream hash, exactly
\* when the source of the record is tic80com or empty and the upstream hash
\* differs from the stored one; a record of another source is not changed;
\* and a record of source tic80com or empty without a file hash that passes
\* the collection filter is in the list of the next get-roms-from-tic80.com run.
C28_TicStaleness ==
    [][/\ MergesKnown("update_tic", Head(listing).id)
          => TicCleared(Head(listing),
                        Known(_global_db, lookup[Head(listing).id]),
                        Known(_global_db', lookup[Head(listing).id]))
       /\ Selecting("get_tic_roms")
          => \A i \in 1..Len(_global_db) :
                (/\ SourceClass(_global_db[i].row) \in {"", "tic80com"}
                 /\ Get(_global_db[i].row, "file_sha1", "") = ""
                 /\ filter_func(_global_db[i].row, dl.criteria))
                => \E j \in 1..Len(listing') : listing'[j] = _global_db[i].key]_vars

\* C26: a run of sync-filenames that follows a completed run of sync-filenames,
\* on the store and with the naming options of that run, moves and copies
\* nothing: it leaves every ROM and media file as it found it.
C26_SyncIdempotent == (cmd = "sync_filenames" /\ dl.repeated) => dl.moves = 0

-----------------------------------------------------------------------------
(* Properties of a signal on the persisted records (InterruptSpec).         *)

\* the records a complete load makes of the first n lines of the file f
RECURSIVE LoadedFrom(_, _)
LoadedFrom(f, n) ==
    IF n = 0 THEN <<>> ELSE load_row(LoadedFrom(f, n - 1), ReadRow(f.header, f.rows[n]))

\* the identities of the records the file f holds
Persisted(f) == IF f.exists THEN Keys(LoadedFrom(f, Len(f.rows))) ELSE {}

\* the file as it was when the command started: nothing is written before the
\* save opens the file
FileAtStart == IF pc \in Saving THEN last_saved.before ELSE csv_file

\* C27: whenever signal_handler has run and the process has exited, every
\* record that the file held when the command started is in the file, also
\* when the signal arrived while load had read only a part of the rows.
C27_NeverShrinks ==
    [][(pc \in Running /\ pc' = "exit0") => Persisted(FileAtStart) \subseteq Persisted(csv_file')]_vars

-----------------------------------------------------------------------------
(* Properties of the source classes (ClassSpec).                            *)

\* the source the identity resolver follows on a record of ClassRows, whose
\* three identifiers differ: the identifier it returns names it
ResolvedAs(row) ==
    IF get_primary_game_id(row) = row["tic_id"] THEN "tic80com"
    ELSE IF get_primary_game_id(row) = row["itch_id"] THEN "itch"
    ELSE "other"

\* C30: for every spelling of source_with_bestversion, a record that the
\* identity resolver treats as tic80com gets the tic category (Games when the
\* record has none) and its tic date, and a record that the resolver treats
\* as itch gets the category Itch and the date of the itch rule.
C30_SameClass ==
    (pc = "done" /\ "fn" \in DOMAIN out) =>
        /\ (out.fn = "category" /\ ResolvedAs(out.row) = "tic80com")
              => out.result = Get(out.row, "tic_category", "Games")
        /\ (out.fn = "category" /\ ResolvedAs(out.row) = "itch")
              => out.result = "Itch"
        /\ (out.fn = "date" /\ ResolvedAs(out.row) = "tic80com" /\ TicDate(out.row) # "")
              => out.result = DateIs(TicDate(out.row))
        /\ (out.fn = "date" /\ ResolvedAs(out.row) = "itch")
              => out.result = ItchRule(out.row, SelectedItchTs(out.row))

-----------------------------------------------------------------------------
(* Properties of the worker pool (PoolSpec).                                *)

CountSum(count) == count.processed + count.skipped_exist + count.skipped_no_source + count.error

ResultsOf(result) == Cardinality({g \in pool.yielded : pool.task[g].result = result})

\* each collected call is counted once, under the counter of its result
CountedOnce ==
    /\ CountSum(pool.count) = Cardinality(pool.yielded)
    /\ pool.count.processed = ResultsOf("processed")
    /\ pool.count.skipped_exist = ResultsOf("skipped_exist")
    /\ pool.count.skipped_no_source = ResultsOf("skipped_no_source")
    /\ pool.count.error = ResultsOf("error") + ResultsOf("raised")

\* a worker prints only inside "with print_lock", one worker at a time
PrintsUnderLock == \A g \in GameIds : pool.task[g].pc = "print" => pool.lock = g

\* at the summary every submitted call has ended and the counters add up to
\* the number of submitted calls
AllCounted ==
    pc = "summary" =>
        /\ \A g \in GameIds : pool.task[g].pc = "done"
        /\ CountSum(pool.count) = Len(PoolGames)

\* C24: in the worker pool, for every interleaving and every combination of
\* outcomes of the calls, every submitted call runs to its end and the summary
\* is reached (no call is held up by another one, by an exception of another
\* one or by the print lock), each call is counted exactly once so that the
\* four counters add up to the number of submitted calls, and a worker prints
\* only while it holds the print lock.
C24_PoolIsolated == [](CountedOnce /\ PrintsUnderLock /\ AllCounted) /\ <>(pc = "summary")

\* the summary after one call raised out of process_game, one was processed
\* and one was skipped
C24_Witness ==
    /\ pc = "summary"
    /\ \E g \in GameIds : pool.task[g].result = "raised"
    /\ pool.count.processed = 1
    /\ pool.count.error = 1
    /\ pool.count.skipped_exist + pool.count.skipped_no_source = 1

====
